---- MODULE Spec2Model ----
(***************************************************************************)
(* Scoring and signal-detection engine of the stock repository:            *)
(* src/analyzers/technical.py, fundamental.py and screener.py.             *)
(*                                                                         *)
(* Numbers.  Python floats are fixed-point integers with U units per 1.0   *)
(* (six decimals), so that round(x, 4) and round(x, 1) are real roundings. *)
(* All intermediate values stay below 2^31.  A pandas Series is a sequence *)
(* of optional values: NaN is None, a number x is Some(x).                 *)
(***************************************************************************)
EXTENDS Integers, Sequences, FiniteSets, TLC

U == 10 ^ 6

None == [ok |-> FALSE, v |-> 0]
Some(x) == [ok |-> TRUE, v |-> x]

Abs(x) == IF x < 0 THEN -x ELSE x
Min2(a, b) == IF a <= b THEN a ELSE b
Max2(a, b) == IF a >= b THEN a ELSE b

\* floor(a * 10^k / c) by long division, c > 0, for c * 10 < 2^31
RECURSIVE LongDiv(_, _, _)
LongDiv(a, c, k) ==
    IF k = 0 THEN a \div c
    ELSE (a \div c) * (10 ^ k) + LongDiv((a % c) * 10, c, k - 1)

\* Python round(x, n): round half to even, to a multiple of q units
RoundTo(x, q) ==
    LET f == x \div q
        r == x % q
    IN  IF 2 * r < q THEN f * q
        ELSE IF 2 * r > q THEN (f + 1) * q
        ELSE IF f % 2 = 0 THEN f * q ELSE (f + 1) * q

Round4(x) == RoundTo(x, U \div 10000)
Round1(x) == RoundTo(x, U \div 10)

(***************************************************************************)
(* Indicator library (technical.py, module level functions)                *)
(***************************************************************************)

\* sums over s[lo..hi], halving the range
RECURSIVE SumWhole(_, _, _)
SumWhole(s, lo, hi) ==
    IF lo > hi THEN 0
    ELSE IF lo = hi THEN s[lo] \div U
    ELSE LET mid == (lo + hi) \div 2
         IN  SumWhole(s, lo, mid) + SumWhole(s, mid + 1, hi)

RECURSIVE SumFrac(_, _, _)
SumFrac(s, lo, hi) ==
    IF lo > hi THEN 0
    ELSE IF lo = hi THEN s[lo] % U
    ELSE LET mid == (lo + hi) \div 2
         IN  SumFrac(s, lo, mid) + SumFrac(s, mid + 1, hi)

\* mean of s[lo..hi], exact floor, whole and fractional parts summed apart
WindowMean(s, lo, hi) ==
    LET n == hi - lo + 1
        W == SumWhole(s, lo, hi)
        F == SumFrac(s, lo, hi)
    IN  (W \div n) * U + ((W % n) * U + F) \div n

\* series.rolling(window=length, min_periods=length).mean()
_sma(series, length) ==
    [i \in 1..Len(series) |->
        IF i < length THEN None
        ELSE Some(WindowMean(series, i - length + 1, i))]

\* series.ewm(alpha=num/den, adjust=False).mean(): y1 = x1,
\* y_t = y_(t-1) + alpha * (x_t - y_(t-1)), each step rounded to the
\* nearest unit (a positive average never decays to exactly zero)
EwmStep(prev, x, num, den) == prev - RoundTo(num * (prev - x), den) \div den

\* the smoothed values of s[lo..hi] given the value before lo (lo > 1),
\* halving the range
RECURSIVE EwmRange(_, _, _, _, _, _)
EwmRange(s, num, den, lo, hi, prev) ==
    IF lo = hi
    THEN << IF lo = 1 THEN s[1] ELSE EwmStep(prev, s[lo], num, den) >>
    ELSE LET mid == (lo + hi) \div 2
             left == EwmRange(s, num, den, lo, mid, prev)
         IN  left \o EwmRange(s, num, den, mid + 1, hi, left[Len(left)])

Ewm(s, num, den) ==
    IF Len(s) = 0 THEN <<>> ELSE EwmRange(s, num, den, 1, Len(s), 0)

\* series.ewm(span=length, adjust=False).mean(), alpha = 2 / (length + 1)
_ema(series, length) ==
    LET y == Ewm(series, 2, length + 1)
    IN  [i \in 1..Len(series) |-> Some(y[i])]

\* Values of a series of defined numbers
Vals(ser) == [i \in 1..Len(ser) |-> ser[i].v]

\* _rsi: Wilder smoothing of gains and losses, zero average loss -> NaN
_rsi(series, length) ==
    LET n == Len(series)
        delta == [i \in 1..n |-> IF i = 1 THEN None
                                 ELSE Some(series[i] - series[i - 1])]
        gain == [i \in 1..n |->
                    IF delta[i].ok /\ delta[i].v > 0 THEN delta[i].v ELSE 0]
        loss == [i \in 1..n |->
                    IF delta[i].ok /\ delta[i].v < 0 THEN -delta[i].v ELSE 0]
        avg_gain == Ewm(gain, 1, length)
        avg_loss == Ewm(loss, 1, length)
    IN  [i \in 1..n |->
            IF i < length THEN None
            ELSE IF avg_loss[i] = 0 THEN None
            ELSE Some(LongDiv(avg_gain[i], avg_gain[i] + avg_loss[i], 8))]

\* _macd: line, histogram, signal
_macd(series, fast, slow, signal) ==
    LET ema_fast == Vals(_ema(series, fast))
        ema_slow == Vals(_ema(series, slow))
        macd_line == [i \in 1..Len(series) |-> ema_fast[i] - ema_slow[i]]
        signal_line == Vals(_ema(macd_line, signal))
    IN  [macd |-> [i \in 1..Len(series) |-> Some(macd_line[i])],
         histogram |-> [i \in 1..Len(series) |->
                            Some(macd_line[i] - signal_line[i])],
         signal |-> [i \in 1..Len(series) |-> Some(signal_line[i])]]

RECURSIVE IsqrtFrom(_, _)
IsqrtFrom(n, s) == IF (s + 1) * (s + 1) > n THEN s ELSE IsqrtFrom(n, s + 1)

\* digit-by-digit square root: s root so far, rem its remainder, fr the
\* remainder of the fraction D / c still to be expanded, k digits to go
RECURSIVE SqrtDigits(_, _, _, _, _)
SqrtDigits(s, rem, fr, c, k) ==
    IF k = 0 THEN s
    ELSE LET pair == (fr * 100) \div c
             cur == rem * 100 + pair
             d == CHOOSE x \in 0..9 :
                     /\ (20 * s + x) * x <= cur
                     /\ (x = 9 \/ (20 * s + x + 1) * (x + 1) > cur)
         IN  SqrtDigits(10 * s + d, cur - (20 * s + d) * d,
                        (fr * 100) % c, c, k - 1)

RECURSIVE SumSq(_, _, _, _)
SumSq(s, lo, hi, ref) ==
    IF lo > hi THEN 0
    ELSE ((s[hi] \div U) - ref) * ((s[hi] \div U) - ref)
            + SumSq(s, lo, hi - 1, ref)

\* sample standard deviation (ddof = 1) of the window s[lo..hi]; closes are
\* whole numbers of price units, deviations are taken from the last one
WindowStd(s, lo, hi) ==
    LET n == hi - lo + 1
        ref == s[hi] \div U
        s1 == SumWhole(s, lo, hi) - n * ref
        s2 == SumSq(s, lo, hi, ref)
        D == n * s2 - s1 * s1
        c == n * (n - 1)
        s0 == IsqrtFrom(D \div c, 0)
    IN  SqrtDigits(s0, (D \div c) - s0 * s0, D % c, c, 6)

\* _bbands: lower, mid, upper
_bbands(series, length, std_dev) ==
    LET mid == _sma(series, length)
        rolling_std == [i \in 1..Len(series) |->
                           IF i < length THEN None
                           ELSE Some(WindowStd(series, i - length + 1, i))]
    IN  [lower |-> [i \in 1..Len(series) |->
                       IF mid[i].ok /\ rolling_std[i].ok
                       THEN Some(mid[i].v - std_dev * rolling_std[i].v)
                       ELSE None],
         mid |-> mid,
         upper |-> [i \in 1..Len(series) |->
                       IF mid[i].ok /\ rolling_std[i].ok
                       THEN Some(mid[i].v + std_dev * rolling_std[i].v)
                       ELSE None]]

(***************************************************************************)
(* TechnicalConfig defaults (core/config.py)                               *)
(***************************************************************************)
sma_periods == <<5, 20, 60, 120>>
ema_periods == <<12, 26>>
rsi_period == 14
rsi_overbought == 70
rsi_oversold == 30
macd_fast == 12
macd_slow == 26
macd_signal_period == 9
bollinger_period == 20
bollinger_std_dev == 2
golden_cross_pairs == <<<<5, 20>>, <<20, 60>>>>

SeqRange(q) == {q[i] : i \in 1..Len(q)}

(***************************************************************************)
(* TechnicalAnalyzer (technical.py)                                        *)
(***************************************************************************)

\* {} of Python, for dicts and for the indicator set
EmptyDict == [empty |-> TRUE]

\* series.dropna()
Dropna(ser) == SelectSeq(ser, LAMBDA e : e.ok)

\* _last_value: last non-NaN value rounded to 4 decimals, None if none
_last_value(ser) ==
    LET valid == Dropna(ser)
    IN  IF Len(valid) = 0 THEN None
        ELSE Some(Round4(valid[Len(valid)].v))

_prev_sma_value_last(df, period) ==
    LET valid == Dropna(_sma(df.Close, period))
    IN  IF Len(valid) < 2 THEN None
        ELSE Some(valid[Len(valid)].v)
\* _prev_sma_value: second-to-last valid SMA value, not rounded
_prev_sma_value(df, period) ==
    LET valid == Dropna(_sma(df.Close, period))
    IN  IF Len(valid) < 2 THEN None
        ELSE Some(valid[Len(valid) - 1].v)

_compute_indicators(df) ==
    LET close == df.Close
        macd_df == _macd(close, macd_fast, macd_slow, macd_signal_period)
        bb_df == _bbands(close, bollinger_period, bollinger_std_dev)
    IN  [empty |-> FALSE,
         sma |-> [p \in SeqRange(sma_periods) |-> _last_value(_sma(close, p))],
         ema |-> [p \in SeqRange(ema_periods) |-> _last_value(_ema(close, p))],
         rsi |-> _last_value(_rsi(close, rsi_period)),
         macd |-> _last_value(macd_df.macd),
         macd_histogram |-> _last_value(macd_df.histogram),
         macd_signal |-> _last_value(macd_df.signal),
         bb_lower |-> _last_value(bb_df.lower),
         bb_mid |-> _last_value(bb_df.mid),
         bb_upper |-> _last_value(bb_df.upper)]

\* indicators.get(f"sma_{period}")
SmaGet(indicators, period) ==
    IF period \in DOMAIN indicators.sma THEN indicators.sma[period] ELSE None

LastClose(df) == df.Close[Len(df.Close)]

CrossSignal_noprev(prev_short, prev_long, sma_short, sma_long, short_p, long_p) ==
    IF sma_short > sma_long
    THEN <<<<"Golden cross", short_p, long_p>>>>
    ELSE IF sma_short < sma_long
    THEN <<<<"Death cross", short_p, long_p>>>>
    ELSE <<>>
\* the Golden / Death cross decision for one pair (lines 236-239)
CrossSignal(prev_short, prev_long, sma_short, sma_long, short_p, long_p) ==
    IF prev_short <= prev_long /\ sma_short > sma_long
    THEN <<<<"Golden cross", short_p, long_p>>>>
    ELSE IF prev_short >= prev_long /\ sma_short < sma_long
    THEN <<<<"Death cross", short_p, long_p>>>>
    ELSE <<>>

RECURSIVE CrossSignals(_, _, _)
CrossSignals(df, indicators, k) ==
    IF k > Len(golden_cross_pairs) THEN <<>>
    ELSE LET short_p == golden_cross_pairs[k][1]
             long_p == golden_cross_pairs[k][2]
             sma_short == SmaGet(indicators, short_p)
             sma_long == SmaGet(indicators, long_p)
             prev_short == _prev_sma_value(df, short_p)
             prev_long == _prev_sma_value(df, long_p)
             here == IF sma_short.ok /\ sma_long.ok
                        /\ prev_short.ok /\ prev_long.ok
                     THEN CrossSignal(prev_short.v, prev_long.v,
                                      sma_short.v, sma_long.v, short_p, long_p)
                     ELSE <<>>
         IN  here \o CrossSignals(df, indicators, k + 1)

_detect_signals_cross_first(df, indicators) ==
    LET close == LastClose(df)
        rsi == indicators.rsi
        rsi_sig == IF ~rsi.ok THEN <<>>
                   ELSE IF rsi.v >= rsi_overbought * U
                   THEN <<<<"RSI overbought", Round1(rsi.v)>>>>
                   ELSE IF rsi.v <= rsi_oversold * U
                   THEN <<<<"RSI oversold", Round1(rsi.v)>>>>
                   ELSE <<>>
        macd == indicators.macd
        macd_signal == indicators.macd_signal
        macd_sig == IF ~(macd.ok /\ macd_signal.ok) THEN <<>>
                    ELSE IF macd.v > macd_signal.v
                    THEN <<<<"MACD bullish cross">>>>
                    ELSE IF macd.v < macd_signal.v
                    THEN <<<<"MACD bearish cross">>>>
                    ELSE <<>>
        bb_upper == indicators.bb_upper
        bb_lower == indicators.bb_lower
        bb_up_sig == IF bb_upper.ok /\ close > bb_upper.v
                     THEN <<<<"Bollinger upper breakout">>>> ELSE <<>>
        bb_lo_sig == IF bb_lower.ok /\ close < bb_lower.v
                     THEN <<<<"Bollinger lower breakout">>>> ELSE <<>>
    IN  CrossSignals(df, indicators, 1) \o rsi_sig \o macd_sig
            \o bb_up_sig \o bb_lo_sig
_detect_signals(df, indicators) ==
    LET close == LastClose(df)
        rsi == indicators.rsi
        rsi_sig == IF ~rsi.ok THEN <<>>
                   ELSE IF rsi.v >= rsi_overbought * U
                   THEN <<<<"RSI overbought", Round1(rsi.v)>>>>
                   ELSE IF rsi.v <= rsi_oversold * U
                   THEN <<<<"RSI oversold", Round1(rsi.v)>>>>
                   ELSE <<>>
        macd == indicators.macd
        macd_signal == indicators.macd_signal
        macd_sig == IF ~(macd.ok /\ macd_signal.ok) THEN <<>>
                    ELSE IF macd.v > macd_signal.v
                    THEN <<<<"MACD bullish cross">>>>
                    ELSE IF macd.v < macd_signal.v
                    THEN <<<<"MACD bearish cross">>>>
                    ELSE <<>>
        bb_upper == indicators.bb_upper
        bb_lower == indicators.bb_lower
        bb_up_sig == IF bb_upper.ok /\ close > bb_upper.v
                     THEN <<<<"Bollinger upper breakout">>>> ELSE <<>>
        bb_lo_sig == IF bb_lower.ok /\ close < bb_lower.v
                     THEN <<<<"Bollinger lower breakout">>>> ELSE <<>>
    IN  rsi_sig \o macd_sig \o CrossSignals(df, indicators, 1)
            \o bb_up_sig \o bb_lo_sig

\* RSI component (lines 278-284); rsi is a number here
RsiScore(rsi) ==
    IF rsi <= 30 * U THEN 25 * U
    ELSE IF rsi >= 70 * U THEN 5 * U
    ELSE 25 * U - (rsi - 30 * U) \div 2

\* MACD component (lines 287-293)
MacdScore(indicators) ==
    LET macd_hist == IF indicators.macd_histogram.ok
                     THEN indicators.macd_histogram.v ELSE 0
    IN  IF macd_hist > 0
        THEN Min2(25 * U, (25 * U) \div 2 + macd_hist * 50)
        ELSE Max2(0, (25 * U) \div 2 + macd_hist * 50)

\* moving average trend component (lines 296-304); close / sma_val > 1.0
\* is decided as close > sma_val, sma_val being positive
RECURSIVE MaAcc(_, _, _, _)
MaAcc(close, indicators, k, ma_score) ==
    IF k > Len(sma_periods) THEN ma_score
    ELSE LET sma_val == SmaGet(indicators, sma_periods[k])
         IN  IF sma_val.ok /\ sma_val.v > 0
             THEN IF close > sma_val.v
                  THEN MaAcc(close, indicators, k + 1, ma_score + 3 * U)
                  ELSE MaAcc(close, indicators, k + 1, ma_score - 3 * U)
             ELSE MaAcc(close, indicators, k + 1, ma_score)

MaScore_skip(close, indicators) ==
    Max2(0, Min2(25 * U, MaAcc(close, indicators, 2, (25 * U) \div 2)))
MaScore(close, indicators) ==
    Max2(0, Min2(25 * U, MaAcc(close, indicators, 1, (25 * U) \div 2)))

BbScore_unclamped(close, indicators) ==
    LET bb_upper == indicators.bb_upper
        bb_lower == indicators.bb_lower
    IN  IF /\ bb_upper.ok /\ bb_lower.ok /\ bb_upper.v > bb_lower.v
        THEN (U - LongDiv(close - bb_lower.v, bb_upper.v - bb_lower.v, 6)) * 20
                + (5 * U) \div 2
        ELSE (25 * U) \div 2
\* Bollinger position component (lines 307-315); None and 0.0 are falsy
BbScore(close, indicators) ==
    LET bb_upper == indicators.bb_upper
        bb_lower == indicators.bb_lower
    IN  IF /\ bb_upper.ok /\ bb_upper.v # 0
           /\ bb_lower.ok /\ bb_lower.v # 0
           /\ bb_upper.v > bb_lower.v
        THEN LET bb_range == bb_upper.v - bb_lower.v
                 position == LongDiv(close - bb_lower.v, bb_range, 6)
                 bb_score == (U - position) * 20 + (5 * U) \div 2
             IN  Max2(0, Min2(25 * U, bb_score))
        ELSE (25 * U) \div 2

NoParts == [reached |-> FALSE, rsi_score |-> 0, macd_score |-> 0,
            ma_score |-> 0, bb_score |-> 0]

\* _compute_score: comparing rsi = None with 30 raises TypeError
_compute_score(df, indicators) ==
    LET close == LastClose(df)
        rsi == indicators.rsi
    IN  IF ~rsi.ok
        THEN [raised |-> TRUE, error |-> "TypeError", score |-> 0,
              parts |-> NoParts]
        ELSE LET rsi_score == RsiScore(rsi.v)
                 macd_score == MacdScore(indicators)
                 ma_score == MaScore(close, indicators)
                 bb_score == BbScore(close, indicators)
                 total == rsi_score + macd_score + ma_score + bb_score
             IN  [raised |-> FALSE, error |-> "",
                  score |-> Round1(Max2(0, Min2(100 * U, total))),
                  parts |-> [reached |-> TRUE, rsi_score |-> rsi_score,
                             macd_score |-> macd_score, ma_score |-> ma_score,
                             bb_score |-> bb_score]]

\* a frame: NoFrame is Python None, otherwise its Close column
NoFrame == [present |-> FALSE, Close |-> <<>>]
Frame(close) == [present |-> TRUE, Close |-> close]
IsEmpty(df) == Len(df.Close) = 0

MinBars == 30

\* the 30-bar floor of analyze (line 109)
InsufficientData_short(ohlcv) == Len(ohlcv.Close) < bollinger_period
InsufficientData(ohlcv) == Len(ohlcv.Close) < MinBars

Raised(err, signals, indicators) ==
    [status |-> "raised", error |-> err, score |-> 0, signals |-> <<>>,
     indicators |-> EmptyDict, raw |-> EmptyDict,
     locals |-> [signals |-> signals, indicators |-> indicators,
                 parts |-> NoParts]]

\* lines 133-142 of analyze: the result built from the indicators, the
\* signals and the outcome of _compute_score
AnalyzeResult(ohlcv, indicators, signals, sc) ==
    IF sc.raised
    THEN Raised(sc.error, signals, indicators)
    ELSE [status |-> "returned", error |-> "", score |-> sc.score,
          signals |-> signals, indicators |-> indicators,
          raw |-> [empty |-> FALSE, close |-> LastClose(ohlcv),
                   data_points |-> Len(ohlcv.Close)],
          locals |-> [signals |-> signals, indicators |-> indicators,
                      parts |-> sc.parts]]

\* lines 122-124 of analyze: signals and score from the indicators
AnalyzeSteps(ohlcv, indicators) ==
    AnalyzeResult(ohlcv, indicators, _detect_signals(ohlcv, indicators),
                  _compute_score(ohlcv, indicators))

\* TechnicalAnalyzer.analyze; locals are the values of the local variables
\* signals and indicators and of _compute_score's components when the call
\* ended
TechAnalyze(ohlcv) ==
    IF ~ohlcv.present \/ IsEmpty(ohlcv)
    THEN Raised("AnalysisError", <<>>, EmptyDict)
    ELSE IF InsufficientData(ohlcv)
    THEN [status |-> "returned", error |-> "", score |-> 50 * U,
          signals |-> << <<"insufficient_data">> >>,
          indicators |-> EmptyDict, raw |-> EmptyDict,
          locals |-> [signals |-> <<>>, indicators |-> EmptyDict,
                      parts |-> NoParts]]
    ELSE AnalyzeSteps(ohlcv, _compute_indicators(ohlcv))

(***************************************************************************)
(* FundamentalConfig defaults (core/config.py)                             *)
(***************************************************************************)
per_max == 30
pbr_max == 5
roe_min == 10
operating_margin_min == 10
revenue_growth_min == 5
earnings_growth_min == 10

(***************************************************************************)
(* FundamentalAnalyzer (fundamental.py)                                    *)
(*                                                                         *)
(* The provider is the sequence of outcomes of successive reads of         *)
(* yf.Ticker(t).info: [kind |-> "error"] raises, [kind |-> "info"] hands   *)
(* back a payload.  A raw payload value is absent ("none"), a number       *)
(* ("num"), a string that is no number ("text") or an integer too large    *)
(* for a float ("huge").                                                   *)
(***************************************************************************)
stop_after_attempt == 3

RawNone == [kind |-> "none", v |-> 0]
RawNum(x) == [kind |-> "num", v |-> x]
RawText == [kind |-> "text", v |-> 0]
RawHuge == [kind |-> "huge", v |-> 0]

InfoKeys == {"trailingPE", "forwardPE", "priceToBook",
             "priceToSalesTrailing12Months", "returnOnEquity",
             "returnOnAssets", "operatingMargins", "revenueGrowth",
             "earningsGrowth", "marketCap", "dividendYield"}

EmptyInfo == [empty |-> TRUE, f |-> [k \in InfoKeys |-> RawNone]]

FetchAttempt_reraise(outcome) ==
    IF outcome.kind = "error"
    THEN [raised |-> TRUE, info |-> EmptyInfo]
    ELSE [raised |-> FALSE,
          info |-> IF outcome.info.empty THEN EmptyInfo ELSE outcome.info]
\* the body of _fetch_info: every exception is caught and becomes {}
FetchAttempt(outcome) ==
    IF outcome.kind = "error"
    THEN [raised |-> FALSE, info |-> EmptyInfo]
    ELSE [raised |-> FALSE,
          info |-> IF outcome.info.empty THEN EmptyInfo ELSE outcome.info]

\* tenacity retry(stop_after_attempt(3), reraise=True) around that body:
\* another attempt is made only when the body raises
RECURSIVE FetchRetry(_, _)
FetchRetry(provider, attempt) ==
    LET r == FetchAttempt(provider[attempt])
    IN  IF ~r.raised THEN [raised |-> FALSE, info |-> r.info,
                           attempts |-> attempt]
        ELSE IF attempt >= stop_after_attempt
        THEN [raised |-> TRUE, info |-> EmptyInfo, attempts |-> attempt]
        ELSE FetchRetry(provider, attempt + 1)

_fetch_info(provider) == FetchRetry(provider, 1)

\* _safe_float: None for an absent value or one float() rejects with
\* ValueError / TypeError; OverflowError is not caught
_safe_float(info, key) ==
    LET val == info.f[key]
    IN  CASE val.kind = "none" -> [raised |-> FALSE, val |-> None]
          [] val.kind = "num" -> [raised |-> FALSE, val |-> Some(val.v)]
          [] val.kind = "text" -> [raised |-> FALSE, val |-> None]
          [] val.kind = "huge" -> [raised |-> TRUE, val |-> None]

MetricKeys == <<"trailingPE", "forwardPE", "priceToBook",
                "priceToSalesTrailing12Months", "returnOnEquity",
                "returnOnAssets", "operatingMargins", "revenueGrowth",
                "earningsGrowth", "marketCap", "dividendYield">>

\* _extract_metrics; "per" is trailingPE or, when that is None or 0.0,
\* forwardPE, which is read only in that case
_extract_metrics(info) ==
    LET trailing == _safe_float(info, "trailingPE")
        needForward == ~trailing.raised
                          /\ (~trailing.val.ok \/ trailing.val.v = 0)
        read == {k \in SeqRange(MetricKeys) :
                    k # "forwardPE" \/ needForward}
        g(k) == _safe_float(info, k).val
    IN  IF \E k \in read : _safe_float(info, k).raised
        THEN [raised |-> TRUE, error |-> "OverflowError",
              metrics |-> EmptyDict]
        ELSE [raised |-> FALSE, error |-> "",
              metrics |->
                [empty |-> FALSE,
                 per |-> IF needForward THEN g("forwardPE")
                         ELSE trailing.val,
                 pbr |-> g("priceToBook"),
                 psr |-> g("priceToSalesTrailing12Months"),
                 roe |-> g("returnOnEquity"),
                 roa |-> g("returnOnAssets"),
                 operating_margin |-> g("operatingMargins"),
                 revenue_growth |-> g("revenueGrowth"),
                 earnings_growth |-> g("earningsGrowth"),
                 market_cap |-> g("marketCap"),
                 dividend_yield |-> g("dividendYield")]]

\* x * n / d for a score share x, without leaving 32 bits
Scale(x, n, d) == (x \div d) * n + ((x % d) * n) \div d

ValuationPart_strict(m, max) ==
    IF m.ok /\ m.v > 0
    THEN IF 2 * m.v < max * U THEN (825 * U) \div 100
         ELSE IF m.v <= max * U
         THEN LET ratio == LongDiv(m.v, max * U, 6)
              IN  Scale(U - ratio, 825, 100)
         ELSE -((825 * U) \div 100)
    ELSE 0
\* one valuation metric against its maximum (lines 199-206, 209-216)
ValuationPart(m, max) ==
    IF m.ok /\ m.v > 0
    THEN IF 2 * m.v <= max * U THEN (825 * U) \div 100
         ELSE IF m.v <= max * U
         THEN LET ratio == LongDiv(m.v, max * U, 6)
              IN  Scale(U - ratio, 825, 100)
         ELSE -((825 * U) \div 100)
    ELSE 0

_valuation_score(metrics) ==
    LET score == (165 * U) \div 10 + ValuationPart(metrics.per, per_max)
                    + ValuationPart(metrics.pbr, pbr_max)
    IN  Max2(0, Min2(33 * U, score))

Pct_raw(x) == x
\* x * 100 if abs(x) < 1 else x
Pct(x) == IF Abs(x) < U THEN x * 100 ELSE x

ThresholdPart_nullzero(m, min, slope10, cap100) ==
    LET pct == IF m.ok THEN Pct(m.v) ELSE 0
    IN  IF pct >= min * U
        THEN Min2((cap100 * U) \div 100, Scale(pct - min * U, slope10, 10))
        ELSE -Min2((cap100 * U) \div 100, Scale(min * U - pct, slope10, 10))
\* one profitability / growth metric against its minimum: slope is in
\* tenths, cap in hundredths
ThresholdPart(m, min, slope10, cap100) ==
    IF m.ok
    THEN LET pct == Pct(m.v)
         IN  IF pct >= min * U
             THEN Min2((cap100 * U) \div 100,
                       Scale(pct - min * U, slope10, 10))
             ELSE -Min2((cap100 * U) \div 100,
                        Scale(min * U - pct, slope10, 10))
    ELSE 0

_profitability_score(metrics) ==
    LET score == (165 * U) \div 10
                    + ThresholdPart(metrics.roe, roe_min, 5, 825)
                    + ThresholdPart(metrics.operating_margin,
                                    operating_margin_min, 3, 825)
    IN  Max2(0, Min2(33 * U, score))

_growth_score(metrics) ==
    LET score == 17 * U
                    + ThresholdPart(metrics.revenue_growth,
                                    revenue_growth_min, 4, 850)
                    + ThresholdPart(metrics.earnings_growth,
                                    earnings_growth_min, 3, 850)
    IN  Max2(0, Min2(34 * U, score))

FundScore_unrounded(metrics) ==
    LET total == _valuation_score(metrics) + _profitability_score(metrics)
                    + _growth_score(metrics)
    IN  Max2(0, Min2(100 * U, total))
\* FundamentalAnalyzer._compute_score (lines 183-188)
FundScore(metrics) ==
    LET total == _valuation_score(metrics) + _profitability_score(metrics)
                    + _growth_score(metrics)
    IN  Round1(Max2(0, Min2(100 * U, total)))

\* the sub-scores and the total of _compute_score, and what each metric
\* added to its sub-score
FundSubscores(metrics) ==
    [status |-> "returned",
     val_score |-> _valuation_score(metrics),
     prof_score |-> _profitability_score(metrics),
     growth_score |-> _growth_score(metrics),
     score |-> FundScore(metrics),
     added |-> [per |-> ValuationPart(metrics.per, per_max),
                pbr |-> ValuationPart(metrics.pbr, pbr_max),
                roe |-> ThresholdPart(metrics.roe, roe_min, 5, 825),
                operating_margin |->
                    ThresholdPart(metrics.operating_margin,
                                  operating_margin_min, 3, 825),
                revenue_growth |->
                    ThresholdPart(metrics.revenue_growth,
                                  revenue_growth_min, 4, 850),
                earnings_growth |->
                    ThresholdPart(metrics.earnings_growth,
                                  earnings_growth_min, 3, 850)]]

\* FundamentalAnalyzer.analyze
FundAnalyze(provider) ==
    LET fetched == _fetch_info(provider)
        info == fetched.info
    IN  IF fetched.raised
        THEN [status |-> "raised", error |-> "ProviderError", score |-> 0,
              data |-> EmptyDict, metrics |-> EmptyDict]
        ELSE IF info.empty
        THEN [status |-> "returned", error |-> "", score |-> 50 * U,
              data |-> EmptyDict,
              metrics |-> [empty |-> FALSE, error |-> "no_data"]]
        ELSE LET extracted == _extract_metrics(info)
                 metrics == extracted.metrics
             IN  IF extracted.raised
                 THEN [status |-> "raised", error |-> extracted.error,
                       score |-> 0, data |-> EmptyDict,
                       metrics |-> EmptyDict]
                 ELSE [status |-> "returned", error |-> "",
                       score |-> FundScore(metrics),
                       data |-> metrics,
                       metrics |-> [empty |-> FALSE,
                                    per |-> metrics.per,
                                    pbr |-> metrics.pbr,
                                    roe |-> metrics.roe,
                                    operating_margin |->
                                        metrics.operating_margin,
                                    revenue_growth |->
                                        metrics.revenue_growth,
                                    earnings_growth |->
                                        metrics.earnings_growth]]

(***************************************************************************)
(* StockScreener (screener.py)                                             *)
(***************************************************************************)

\* ScreeningConfig.weights: a weight is a percentage, None a missing key
DefaultWeights == [technical |-> Some(50), fundamental |-> Some(50)]
\* weights.get(key, 0.5)
WeightGet(w) == IF w.ok THEN w.v ELSE 50

NeutralTech == [score |-> 50 * U, signals |-> <<>>, indicators |-> EmptyDict]
NeutralFund == [score |-> 50 * U, data |-> EmptyDict]

TechnicalOutcome_unguarded(r) ==
    [raised |-> r.status = "raised",
     res |-> [score |-> r.score, signals |-> r.signals,
              indicators |-> r.indicators],
     log |-> <<>>]
\* the try / except of _safe_technical around analyze (lines 169-176): any
\* exception is logged and replaced by the neutral result
TechnicalOutcome(r) ==
    IF r.status = "raised"
    THEN [raised |-> FALSE, res |-> NeutralTech,
          log |-> <<"technical_analysis_error">>]
    ELSE [raised |-> FALSE,
          res |-> [score |-> r.score, signals |-> r.signals,
                   indicators |-> r.indicators],
          log |-> <<>>]

\* _safe_technical: neutral result for no frame and for any exception
_safe_technical(ohlcv) ==
    IF ~ohlcv.present \/ IsEmpty(ohlcv)
    THEN [raised |-> FALSE, res |-> NeutralTech, log |-> <<>>]
    ELSE TechnicalOutcome(TechAnalyze(ohlcv))

\* the try / except of _safe_fundamental (lines 187-192)
FundamentalOutcome(r) ==
    IF r.status = "raised"
    THEN [raised |-> FALSE, res |-> NeutralFund,
          log |-> <<"fundamental_analysis_error">>]
    ELSE [raised |-> FALSE, res |-> [score |-> r.score, data |-> r.data],
          log |-> <<>>]

\* _safe_fundamental: neutral result for any exception
_safe_fundamental(provider) == FundamentalOutcome(FundAnalyze(provider))

_classify_recommendation_open(score) ==
    IF score > 80 * U THEN "strong_positive"
    ELSE IF score > 60 * U THEN "positive"
    ELSE IF score > 40 * U THEN "neutral"
    ELSE "negative"
\* _classify_recommendation
_classify_recommendation(score) ==
    IF score >= 80 * U THEN "strong_positive"
    ELSE IF score >= 60 * U THEN "positive"
    ELSE IF score >= 40 * U THEN "neutral"
    ELSE "negative"

Composite_swapped(tech_score, fund_score, weights) ==
    LET composite == (tech_score \div 100) * WeightGet(weights.fundamental)
                        + (fund_score \div 100) * WeightGet(weights.technical)
    IN  Round1(Max2(0, Min2(100 * U, composite)))
\* lines 57-62: the weighted sum, clamped and rounded; scores have one
\* decimal, so score / 100 is exact
Composite(tech_score, fund_score, weights) ==
    LET composite == (tech_score \div 100) * WeightGet(weights.technical)
                        + (fund_score \div 100) * WeightGet(weights.fundamental)
    IN  Round1(Max2(0, Min2(100 * U, composite)))

\* lines 57-75 of analyze: the result built from the two guarded results
AnalyzeOutcome(t, f, weights) ==
    IF t.raised \/ f.raised
    THEN [status |-> "raised", log |-> t.log \o f.log]
    ELSE LET composite == Composite(t.res.score, f.res.score, weights)
         IN  [status |-> "returned",
              score |-> composite,
              technical_score |-> t.res.score,
              fundamental_score |-> f.res.score,
              signals |-> t.res.signals,
              recommendation |-> _classify_recommendation(composite),
              technical_indicators |-> t.res.indicators,
              fundamental_data |-> f.res.data,
              log |-> t.log \o f.log]

\* StockScreener.analyze
ScreenAnalyze(ohlcv, provider, weights) ==
    AnalyzeOutcome(_safe_technical(ohlcv), _safe_fundamental(provider),
                   weights)

\* list.sort(key=composite_score, reverse=True): stable, descending
RECURSIVE InsertAsc(_, _)
InsertAsc(x, sorted) ==
    IF Len(sorted) = 0 THEN <<x>>
    ELSE IF Head(sorted).composite_score <= x.composite_score
    THEN <<Head(sorted)>> \o InsertAsc(x, Tail(sorted))
    ELSE <<x>> \o sorted
RECURSIVE InsertDesc(_, _)
InsertDesc(x, sorted) ==
    IF Len(sorted) = 0 THEN <<x>>
    ELSE IF Head(sorted).composite_score >= x.composite_score
    THEN <<Head(sorted)>> \o InsertDesc(x, Tail(sorted))
    ELSE <<x>> \o sorted

RECURSIVE SortPrefixAsc(_, _)
SortPrefixAsc(analyses, k) ==
    IF k = 0 THEN <<>>
    ELSE InsertAsc(analyses[k], SortPrefixAsc(analyses, k - 1))
RECURSIVE SortPrefix(_, _)
SortPrefix(analyses, k) ==
    IF k = 0 THEN <<>>
    ELSE InsertDesc(analyses[k], SortPrefix(analyses, k - 1))

SortAnalyses_ascending(analyses) == SortPrefixAsc(analyses, Len(analyses))
SortAnalyses(analyses) == SortPrefix(analyses, Len(analyses))

\* one pass of the loop body of screen_watchlist (lines 109-121): the
\* StockAnalysis built from the result of analyze is appended
CollectItem(ticker, result, rest) ==
    IF result.status = "raised" \/ rest.raised
    THEN [raised |-> TRUE, analyses |-> <<>>]
    ELSE [raised |-> FALSE,
          analyses |-> <<[ticker |-> ticker,
                          technical_score |-> result.technical_score,
                          fundamental_score |-> result.fundamental_score,
                          composite_score |-> result.score,
                          signals |-> result.signals,
                          recommendation |-> result.recommendation]>>
                          \o rest.analyses]

\* the loop of screen_watchlist over the watchlist items (lines 100-121);
\* an item without a frame or with an empty one is skipped, a failure of
\* analyze would leave the loop
RECURSIVE Collect(_, _, _, _, _)
Collect(watchlist, ohlcv_data, providers, weights, k) ==
    IF k > Len(watchlist) THEN [raised |-> FALSE, analyses |-> <<>>]
    ELSE IF \/ ~ohlcv_data[watchlist[k]].present
            \/ IsEmpty(ohlcv_data[watchlist[k]])
    THEN Collect(watchlist, ohlcv_data, providers, weights, k + 1)
    ELSE CollectItem(watchlist[k],
                     ScreenAnalyze(ohlcv_data[watchlist[k]],
                                   providers[watchlist[k]], weights),
                     Collect(watchlist, ohlcv_data, providers, weights,
                             k + 1))

\* lines 124-125: the sorted list cut to its first top_n entries
TopN(sorted, top_n) == SubSeq(sorted, 1, Min2(top_n, Len(sorted)))

\* lines 124-132 of screen_watchlist on the collected analyses
Ranked(c, top_n) ==
    IF c.raised THEN [status |-> "raised", analyses |-> <<>>]
    ELSE [status |-> "returned",
          analyses |-> TopN(SortAnalyses(c.analyses), top_n)]

\* StockScreener.screen_watchlist
ScreenWatchlist(watchlist, ohlcv_data, providers, weights, top_n) ==
    Ranked(Collect(watchlist, ohlcv_data, providers, weights, 1), top_n)

(***************************************************************************)
(* Market sentiment (market_sentiment.py)                                  *)
(*                                                                         *)
(* A DataFrame here has a length, a set of columns and the columns High,   *)
(* Low and Close; a column that is not in cols is not read.                *)
(***************************************************************************)
DataFrame(cols, high, low, close) ==
    [cols |-> cols, len |-> Len(close), High |-> high, Low |-> low,
     Close |-> close]

\* series.dropna() followed by the test for empty and .iloc[-1]
LastValid(ser) ==
    IF Len(Dropna(ser)) = 0 THEN None
    ELSE Some(Dropna(ser)[Len(Dropna(ser))].v)

OptSeq(opt) == IF opt.ok THEN <<opt.v>> ELSE <<>>

\* the test both loops of compute_fear_greed make on an index (lines 37, 53)
HasBars_strict(df) == df.len > 20 /\ "Close" \in df.cols
HasBars(df) == df.len >= 20 /\ "Close" \in df.cols

\* the RSI loop (lines 35-41): the last defined RSI of each usable index
RECURSIVE RsiValues(_, _)
RsiValues(index_data, k) ==
    IF k > Len(index_data) THEN <<>>
    ELSE (IF HasBars(index_data[k])
          THEN OptSeq(LastValid(_rsi(index_data[k].Close, 14)))
          ELSE <<>>) \o RsiValues(index_data, k + 1)

\* (close.iloc[-1] / close.iloc[-20] - 1) * 100
Ret20d(close) ==
    LongDiv(close[Len(close)] - close[Len(close) - 19],
            close[Len(close) - 19], 8)

\* the momentum loop (lines 51-56)
RECURSIVE MomentumValues(_, _)
MomentumValues(index_data, k) ==
    IF k > Len(index_data) THEN <<>>
    ELSE (IF HasBars(index_data[k])
          THEN <<Ret20d(index_data[k].Close)>>
          ELSE <<>>) \o MomentumValues(index_data, k + 1)

RECURSIVE SumSeq(_, _)
SumSeq(q, k) == IF k = 0 THEN 0 ELSE q[k] + SumSeq(q, k - 1)

\* sum(values) / len(values)
Mean(values) == SumSeq(values, Len(values)) \div Len(values)

Clamp100(x) == Max2(0, Min2(100 * U, x))

\* line 32: 90 / 30 is 3.0
VixScore(vix_value) == Clamp100(100 * U - (vix_value - 10 * U) * 3)

\* lines 43-48
AvgRsi(rsi_values) == IF Len(rsi_values) > 0 THEN Mean(rsi_values) ELSE 50 * U
RsiComponent(rsi_values) ==
    IF Len(rsi_values) > 0 THEN Clamp100(Mean(rsi_values)) ELSE 50 * U

\* lines 58-64
AvgMomentum(momentum_values) ==
    IF Len(momentum_values) > 0 THEN Mean(momentum_values) ELSE 0
MomentumComponent(momentum_values) ==
    IF Len(momentum_values) > 0
    THEN Clamp100(50 * U + Mean(momentum_values) * 4)
    ELSE 50 * U

FearGreedScore_equal(vix_score, rsi_score, momentum_score) ==
    RoundTo(Clamp100((vix_score + rsi_score + momentum_score) \div 3),
            U \div 10)
\* lines 67-68: the weighted sum, clamped and rounded to one decimal; ten
\* times the sum is rounded to a whole number of tenths
FearGreedScore(vix_score, rsi_score, momentum_score) ==
    RoundTo(Max2(0, Min2(1000 * U,
                4 * vix_score + 3 * rsi_score + 3 * momentum_score)), U)
        \div 10

Level_open(fear_greed) ==
    IF fear_greed > 80 * U THEN "Extreme Greed"
    ELSE IF fear_greed > 60 * U THEN "Greed"
    ELSE IF fear_greed > 40 * U THEN "Neutral"
    ELSE IF fear_greed > 20 * U THEN "Fear"
    ELSE "Extreme Fear"
\* lines 71-80
Level(fear_greed) ==
    IF fear_greed >= 80 * U THEN "Extreme Greed"
    ELSE IF fear_greed >= 60 * U THEN "Greed"
    ELSE IF fear_greed >= 40 * U THEN "Neutral"
    ELSE IF fear_greed >= 20 * U THEN "Fear"
    ELSE "Extreme Fear"

\* lines 82-90; locals are the values of the local variables at the return
FearGreedResult(vix_value, rsi_values, momentum_values, fear_greed) ==
    [status |-> "returned",
     score |-> fear_greed,
     level |-> Level(fear_greed),
     components |->
        [vix |-> [value |-> vix_value,
                  score |-> Round1(VixScore(vix_value))],
         rsi |-> [value |-> Round1(AvgRsi(rsi_values)),
                  score |-> Round1(RsiComponent(rsi_values))],
         momentum |-> [value |-> RoundTo(AvgMomentum(momentum_values),
                                         U \div 100),
                       score |->
                           Round1(MomentumComponent(momentum_values))]],
     locals |-> [vix_score |-> VixScore(vix_value),
                 rsi_values |-> rsi_values,
                 rsi_score |-> RsiComponent(rsi_values),
                 momentum_values |-> momentum_values,
                 momentum_score |-> MomentumComponent(momentum_values)]]

FearGreedFrom(vix_value, rsi_values, momentum_values) ==
    FearGreedResult(vix_value, rsi_values, momentum_values,
                    FearGreedScore(VixScore(vix_value),
                                   RsiComponent(rsi_values),
                                   MomentumComponent(momentum_values)))

compute_fear_greed(vix_value, index_data) ==
    FearGreedFrom(vix_value, RsiValues(index_data, 1),
                  MomentumValues(index_data, 1))

\* the tally loop of market_diagnosis (lines 174-185) over the first k
\* entries: bullish and bearish counts, a half being U \div 2
RsiWeight_full == U
RsiWeight == U \div 2

\* one pass of the loop body (lines 177-185)
TallyEntry(t, counts) ==
    [bullish |-> counts.bullish
                    + (IF t.supertrend_direction = "Bullish" THEN U ELSE 0)
                    + (IF t.rsi_state = "Oversold" THEN RsiWeight ELSE 0),
     bearish |-> counts.bearish
                    + (IF t.supertrend_direction = "Bearish" THEN U ELSE 0)
                    + (IF t.rsi_state = "Overbought" THEN RsiWeight ELSE 0)]

RECURSIVE Tally(_, _)
Tally(trend_data, k) ==
    IF k = 0 THEN [bullish |-> 0, bearish |-> 0]
    ELSE TallyEntry(trend_data[k], Tally(trend_data, k - 1))

\* lines 191-205: the first rule that matches decides
Verdict_caution_first(fg_score, net) ==
    IF fg_score >= 80 * U THEN "Caution (Overbought)"
    ELSE IF fg_score <= 20 * U THEN "Opportunity (Oversold)"
    ELSE IF fg_score >= 60 * U /\ net > 0 THEN "Bullish"
    ELSE IF fg_score <= 40 * U /\ net < 0 THEN "Bearish"
    ELSE "Neutral"
Verdict(fg_score, net) ==
    IF fg_score >= 60 * U /\ net > 0 THEN "Bullish"
    ELSE IF fg_score <= 40 * U /\ net < 0 THEN "Bearish"
    ELSE IF fg_score >= 80 * U THEN "Caution (Overbought)"
    ELSE IF fg_score <= 20 * U THEN "Opportunity (Oversold)"
    ELSE "Neutral"

\* lines 188 and 207-214
DiagnosisResult(fg_score, counts) ==
    [status |-> "returned",
     verdict |-> Verdict(fg_score, counts.bullish - counts.bearish),
     fear_greed_score |-> fg_score,
     bullish_signals |-> counts.bullish,
     bearish_signals |-> counts.bearish,
     net_signal |-> Round1(counts.bullish - counts.bearish)]

market_diagnosis(fear_greed, trend_data) ==
    DiagnosisResult(fear_greed.score, Tally(trend_data, Len(trend_data)))

(***************************************************************************)
(* Trend indicators (trend.py).  A value that can be NaN is an optional;   *)
(* a comparison with NaN is false.                                         *)
(***************************************************************************)
Max3(a, b, c) == Max2(a, Max2(b, c))

\* lines 22-28: the row maximum skips the NaN of the first bar
TrueRange(df) ==
    [i \in 1..df.len |->
        IF i = 1 THEN df.High[1] - df.Low[1]
        ELSE Max3(df.High[i] - df.Low[i],
                  Abs(df.High[i] - df.Close[i - 1]),
                  Abs(df.Low[i] - df.Close[i - 1]))]

\* series.ewm(alpha=1/period, min_periods=period, adjust=False).mean() of a
\* series without NaN
EwmMin(values, period) ==
    [i \in 1..Len(values) |->
        IF i < period THEN None ELSE Some(Ewm(values, 1, period)[i])]

_atr(df, period) == EwmMin(TrueRange(df), period)

\* lines 46-56
PlusDm(df) ==
    [i \in 1..df.len |->
        IF i = 1 THEN 0
        ELSE IF /\ df.High[i] - df.High[i - 1] > df.Low[i - 1] - df.Low[i]
                /\ df.High[i] - df.High[i - 1] > 0
             THEN df.High[i] - df.High[i - 1] ELSE 0]
MinusDm(df) ==
    [i \in 1..df.len |->
        IF i = 1 THEN 0
        ELSE IF /\ df.Low[i - 1] - df.Low[i] > df.High[i] - df.High[i - 1]
                /\ df.Low[i - 1] - df.Low[i] > 0
             THEN df.Low[i - 1] - df.Low[i] ELSE 0]

\* 100 * smooth / atr.replace(0, nan), elementwise (lines 63-64)
DiOf(smooth, atr) ==
    [i \in 1..Len(atr) |->
        IF smooth[i].ok /\ atr[i].ok /\ atr[i].v # 0
        THEN Some(LongDiv(smooth[i].v, atr[i].v, 8)) ELSE None]

\* line 66
DxOf(plus_di, minus_di) ==
    [i \in 1..Len(plus_di) |->
        IF /\ plus_di[i].ok /\ minus_di[i].ok
           /\ plus_di[i].v + minus_di[i].v # 0
        THEN Some(LongDiv(Abs(plus_di[i].v - minus_di[i].v),
                          plus_di[i].v + minus_di[i].v, 8))
        ELSE None]

\* number of leading NaN of a series
RECURSIVE LeadingNaN(_, _)
LeadingNaN(ser, k) ==
    IF k > Len(ser) \/ ser[k].ok THEN k - 1 ELSE LeadingNaN(ser, k + 1)

\* line 67: ewm(min_periods=period) of dx; the average starts at the first
\* value that is not NaN and is reported from the period-th such value.
\* dx is NaN on a prefix only: atr and the smoothed movements are zero
\* only as long as every value before was
AdxOf(dx, skip, period) ==
    [i \in 1..Len(dx) |->
        IF i < skip + period THEN None
        ELSE Some(Ewm(Vals(SubSeq(dx, skip + 1, Len(dx))), 1, period)
                      [i - skip])]

AdxFrame(plus_di, minus_di, dx, period) ==
    [ADX |-> AdxOf(dx, LeadingNaN(dx, 1), period),
     plus_di |-> plus_di, minus_di |-> minus_di]

AdxFromDi(plus_di, minus_di, period) ==
    AdxFrame(plus_di, minus_di, DxOf(plus_di, minus_di), period)

_adx(df, period) ==
    AdxFromDi(DiOf(EwmMin(PlusDm(df), period), _atr(df, period)),
              DiOf(EwmMin(MinusDm(df), period), _atr(df, period)), period)

\* comparisons of optionals: false when a side is NaN
Gt(a, b) == a.ok /\ b.ok /\ a.v > b.v
Lt(a, b) == a.ok /\ b.ok /\ a.v < b.v
Eq(a, b) == a.ok /\ b.ok /\ a.v = b.v

\* lines 92-96: hl2 plus or minus multiplier * atr
Band(df, atr, sign, multiplier) ==
    [i \in 1..df.len |->
        IF atr[i].ok
        THEN Some((df.High[i] + df.Low[i]) \div 2 + sign * multiplier * atr[i].v)
        ELSE None]

\* lines 106-114: the band of bar i after its adjustment
LowerAdjusted(lower_i, lower_prev, close_prev) ==
    IF Gt(lower_i, lower_prev) \/ Lt(close_prev, lower_prev)
    THEN lower_i ELSE lower_prev
UpperAdjusted(upper_i, upper_prev, close_prev) ==
    IF Lt(upper_i, upper_prev) \/ Gt(close_prev, upper_prev)
    THEN upper_i ELSE upper_prev

\* lines 117-138: direction and supertrend of bar i
DirectionOf(close_i, upper_i, lower_i, prev) ==
    IF ~prev.st.ok \/ Eq(prev.st, prev.upper)
    THEN IF Gt(close_i, upper_i)
         THEN [direction |-> 1, st |-> lower_i]
         ELSE [direction |-> -1, st |-> upper_i]
    ELSE IF Lt(close_i, lower_i)
         THEN [direction |-> -1, st |-> upper_i]
         ELSE [direction |-> 1, st |-> lower_i]

\* one pass of the loop (lines 101-138) at bar i; prev holds the bands and
\* the supertrend of bar i - 1 as the earlier passes left them
BarState(upper_i, lower_i, d) ==
    [upper |-> upper_i, lower |-> lower_i, st |-> d.st,
     direction |-> d.direction]

SupertrendBar(close_i, close_prev, upper_i, lower_i, prev) ==
    IF ~upper_i.ok \/ ~lower_i.ok
    THEN [upper |-> upper_i, lower |-> lower_i, st |-> None, direction |-> 1]
    ELSE BarState(UpperAdjusted(upper_i, prev.upper, close_prev),
                  LowerAdjusted(lower_i, prev.lower, close_prev),
                  DirectionOf(Some(close_i),
                              UpperAdjusted(upper_i, prev.upper, close_prev),
                              LowerAdjusted(lower_i, prev.lower, close_prev),
                              prev))

\* the columns supertrend and direction of the returned frame
SupertrendColumns(bars) ==
    [supertrend |-> [i \in 1..Len(bars) |-> bars[i].st],
     direction |-> [i \in 1..Len(bars) |-> bars[i].direction]]

AppendBar(df, upper, lower, k, bars) ==
    Append(bars, SupertrendBar(df.Close[k], Some(df.Close[k - 1]),
                               upper[k], lower[k], bars[k - 1]))

\* the state of every bar up to bar k; bar 1 is not visited by the loop
RECURSIVE SupertrendBars(_, _, _, _)
SupertrendBars(df, upper, lower, k) ==
    IF k = 0 THEN <<>>
    ELSE IF k = 1
    THEN <<[upper |-> upper[1], lower |-> lower[1], st |-> None,
            direction |-> 1]>>
    ELSE AppendBar(df, upper, lower, k, SupertrendBars(df, upper, lower, k - 1))

SupertrendFrom(df, atr, multiplier) ==
    SupertrendColumns(SupertrendBars(df, Band(df, atr, 1, multiplier),
                                     Band(df, atr, -1, multiplier), df.len))

_supertrend(df, period, multiplier) ==
    SupertrendFrom(df, _atr(df, period), multiplier)

(***************************************************************************)
(* compute_trend_strength (market_sentiment.py)                            *)
(***************************************************************************)
\* lines 108-116
BlankTrend(ticker, name) ==
    [status |-> "returned", ticker |-> ticker, name |-> name,
     adx |-> None, adx_trend |-> "N/A", supertrend_direction |-> "N/A",
     rsi |-> None, rsi_state |-> "N/A",
     locals |-> [adx_val |-> None, rsi_val |-> None]]

\* line 118
TooShort_20(df) == df.len < 20 \/ "Close" \notin df.cols
TooShort(df) == df.len < 30 \/ "Close" \notin df.cols

\* line 122
HasHlc(df) == {"High", "Low", "Close"} \subseteq df.cols

\* lines 124-133
AdxTrend(adx_val) ==
    IF adx_val >= 25 * U THEN "Strong"
    ELSE IF adx_val >= 20 * U THEN "Moderate"
    ELSE "Weak"

SupertrendDirection_swapped(st_dir) ==
    IF Len(st_dir) = 0 THEN "N/A"
    ELSE IF st_dir[Len(st_dir)] = 1 THEN "Bearish" ELSE "Bullish"
\* lines 137-140: direction is an integer column, never NaN
SupertrendDirection(st_dir) ==
    IF Len(st_dir) = 0 THEN "N/A"
    ELSE IF st_dir[Len(st_dir)] = 1 THEN "Bullish" ELSE "Bearish"

\* lines 146-153
RsiState(rsi_val) ==
    IF rsi_val >= 70 * U THEN "Overbought"
    ELSE IF rsi_val <= 30 * U THEN "Oversold"
    ELSE "Neutral"

TrendResult(ticker, name, adx_last, direction, rsi_last) ==
    [status |-> "returned", ticker |-> ticker, name |-> name,
     adx |-> IF adx_last.ok THEN Some(Round1(adx_last.v)) ELSE None,
     adx_trend |-> IF adx_last.ok THEN AdxTrend(adx_last.v) ELSE "N/A",
     supertrend_direction |-> direction,
     rsi |-> IF rsi_last.ok THEN Some(Round1(rsi_last.v)) ELSE None,
     rsi_state |-> IF rsi_last.ok THEN RsiState(rsi_last.v) ELSE "N/A",
     locals |-> [adx_val |-> adx_last, rsi_val |-> rsi_last]]

compute_trend_strength(ticker, name, df) ==
    IF TooShort(df) THEN BlankTrend(ticker, name)
    ELSE TrendResult(ticker, name,
                     IF HasHlc(df) THEN LastValid(_adx(df, 14).ADX) ELSE None,
                     IF HasHlc(df)
                     THEN SupertrendDirection(_supertrend(df, 10, 3).direction)
                     ELSE "N/A",
                     LastValid(_rsi(df.Close, 14)))

(***************************************************************************)
(* State                                                                   *)
(***************************************************************************)
VARIABLES
    ohlcv,      \* the frame handed to TechnicalAnalyzer.analyze
    tech,       \* what that call returned or raised; Idle before the call
    replay,     \* bar-by-bar replay of one series: the series, the number
                \* of bars fed so far and the Golden crosses seen per bar
    provider,   \* outcomes of the successive reads of the fundamentals
    weights,    \* ScreeningConfig.weights
    comp,       \* what StockScreener.analyze returned; Idle before the call
    cls,        \* a score and the recommendation computed for it
    watch,      \* arguments and configuration of screen_watchlist
    screened,   \* what screen_watchlist returned; Idle before the call
    fund,       \* what FundamentalAnalyzer.analyze returned or raised
    vix,        \* the VIX level handed to compute_fear_greed
    indices,    \* the frames of index_data, in the order of its values()
    fear_greed, \* what compute_fear_greed returned; the first argument of
                \* market_diagnosis
    lvl,        \* a rounded Fear/Greed score and the level label given to it
    trends,     \* the trend list handed to market_diagnosis
    diagnosis,  \* what market_diagnosis returned
    trend_df,   \* the frame handed to compute_trend_strength
    strength,   \* what compute_trend_strength returned
    heap,       \* the pandas objects alive during interleaved calls: the
                \* columns of every ticker's frame and the Series each call
                \* has created, by object
    calls,      \* per ticker, the call in progress: its kind, its position
                \* and its local variables
    alone,      \* per ticker, what its analysis returns when run by itself
    scan_df,    \* the frame and the period handed to _supertrend
    scan,       \* the forward scan of _supertrend: its position and the
                \* bands, supertrend and direction of the bars done so far
    metrics,    \* the metrics handed to FundamentalAnalyzer._compute_score
    subscores   \* the sub-scores and the total it computed

vars == <<ohlcv, tech, replay, provider, weights, comp, cls, watch, screened,
          fund, vix, indices, fear_greed, lvl, trends, diagnosis, trend_df,
          strength, heap, calls, alone, scan_df, scan, metrics, subscores>>

techVars == <<ohlcv, tech, replay>>
screenVars == <<provider, weights, comp>>
watchVars == <<cls, watch, screened>>
fearVars == <<vix, indices, fear_greed, lvl>>
diagVars == <<trends, diagnosis>>
trendVars == <<trend_df, strength>>
callVars == <<heap, calls, alone>>
scanVars == <<scan_df, scan>>
scoreVars == <<metrics, subscores>>
moreVars == <<fund, fearVars, diagVars, trendVars, callVars, scanVars,
              scoreVars>>

Idle == [status |-> "idle"]

(***************************************************************************)
(* Price series the analyses are run on: closes are whole numbers          *)
(***************************************************************************)
MaxStep == 3
LongLen == 125

Shapes == {"flat", "rising", "falling", "zigzag", "dip_rise", "vee", "peak",
           "crash", "spike"}
Bases == {50, 100}
Lengths == {0, 1, MinBars - 1, MinBars, MinBars + 1, 40, 60, LongLen}

Pivot(n) == (3 * n) \div 4

GenAt(shape, n, base, step, i) ==
    CASE shape = "flat" -> base
      [] shape = "rising" -> base + step * i
      [] shape = "falling" -> base + step * (n - i)
      [] shape = "zigzag" -> base + step * (i % 2)
      [] shape = "dip_rise" -> IF i = 1 THEN base + 3 * step
                               ELSE base + step * i
      [] shape = "vee" -> base + step * Abs(i - Pivot(n))
      [] shape = "peak" -> base + step * (n - Abs(i - Pivot(n)))
      [] shape = "crash" -> IF i = n THEN base - 5 * step ELSE base
      [] shape = "spike" -> IF i = n THEN base + 10 * step
                            ELSE base + step * (i % 2)

Gen(shape, n, base, step) ==
    [i \in 1..n |-> U * GenAt(shape, n, base, step, i)]

TechInputs ==
    {NoFrame} \cup
    {Frame(Gen(shape, n, base, step)) :
        shape \in Shapes, n \in Lengths, base \in Bases, step \in 1..MaxStep}

(***************************************************************************)
(* Spec: one call of TechnicalAnalyzer.analyze on a frame                  *)
(***************************************************************************)
ScreenIdle == provider = Idle /\ weights = Idle /\ comp = Idle
WatchIdle == cls = Idle /\ watch = Idle /\ screened = Idle
FearIdle ==
    vix = Idle /\ indices = Idle /\ fear_greed = Idle /\ lvl = Idle
DiagIdle == trends = Idle /\ diagnosis = Idle
TrendIdle == trend_df = Idle /\ strength = Idle
CallsIdle == heap = Idle /\ calls = Idle /\ alone = Idle
ScanIdle == scan_df = Idle /\ scan = Idle
ScoreIdle == metrics = Idle /\ subscores = Idle
MoreIdle ==
    /\ fund = Idle /\ FearIdle /\ DiagIdle /\ TrendIdle /\ CallsIdle
    /\ ScanIdle /\ ScoreIdle

Init ==
    /\ MoreIdle
    /\ ohlcv \in TechInputs
    /\ tech = Idle
    /\ replay = Idle
    /\ ScreenIdle /\ WatchIdle

AnalyzeCall ==
    /\ tech = Idle
    /\ tech' = TechAnalyze(ohlcv)
    /\ UNCHANGED <<ohlcv, replay, screenVars, watchVars, moreVars>>

Next == AnalyzeCall

Spec == Init /\ [][Next]_vars

(***************************************************************************)
(* Properties of TechnicalAnalyzer.analyze                                 *)
(***************************************************************************)
Called == tech.status # "idle"
Bars == Len(ohlcv.Close)
NeutralResult ==
    /\ tech.status = "returned"
    /\ tech.score = 50 * U
    /\ tech.signals = << <<"insufficient_data">> >>
    /\ tech.indicators = EmptyDict
    /\ tech.locals.indicators = EmptyDict

RsiUndefined ==
    /\ Called
    /\ ~tech.locals.indicators.empty
    /\ ~tech.locals.indicators.rsi.ok

\* C2: with 30 or more bars and RSI undefined because the average loss is
\* zero, analyze does not raise, reports rsi as null and returns a score
C2_NullRsiNoRaise ==
    (Bars >= 30 /\ RsiUndefined) =>
        /\ tech.status = "returned"
        /\ tech.indicators.rsi = None
        /\ tech.score \in 0..(100 * U)

InUnit(x, hi) == 0 <= x /\ x <= hi * U

\* C3: the score returned for a series of at least 30 bars lies in [0,100],
\* has one decimal, and is the clamped sum of four components in [0,25]
C3_ScoreRange ==
    (tech.status = "returned" /\ Bars >= 30) =>
        LET p == tech.locals.parts
        IN  /\ InUnit(tech.score, 100)
            /\ tech.score % (U \div 10) = 0
            /\ p.reached
            /\ InUnit(p.rsi_score, 25) /\ InUnit(p.macd_score, 25)
            /\ InUnit(p.ma_score, 25) /\ InUnit(p.bb_score, 25)
            /\ LET total == p.rsi_score + p.macd_score + p.ma_score
                               + p.bb_score
               IN  Abs(tech.score - Max2(0, Min2(100 * U, total)))
                       <= U \div 20

\* a close far below the lower band: the Bollinger clamp binds
C3_Witness ==
    /\ tech.status = "returned" /\ Bars >= 30
    /\ tech.locals.parts.bb_score = 25 * U
    /\ LastClose(ohlcv) < tech.indicators.bb_lower.v

Flat40 == Frame(Gen("flat", 40, 100, 1))

\* C4: for 40 identical closes of 100 the MACD, Bollinger and MA-trend
\* components are 12.5 each and the total is RSI_component + 37.5
C4_FlatScenario ==
    (Called /\ ohlcv = Flat40) =>
        /\ tech.status = "returned"
        /\ tech.locals.parts.macd_score = (25 * U) \div 2
        /\ tech.locals.parts.bb_score = (25 * U) \div 2
        /\ tech.locals.parts.ma_score = (25 * U) \div 2
        /\ tech.score = Round1(tech.locals.parts.rsi_score + (75 * U) \div 2)

\* the score was computed and the latest close is above all four SMAs
AboveAllSma ==
    /\ Called
    /\ tech.locals.parts.reached
    /\ \A p \in SeqRange(sma_periods) :
          /\ tech.locals.indicators.sma[p].ok
          /\ LastClose(ohlcv) > tech.locals.indicators.sma[p].v

ReplayLen == 40

ReplayShapes == {"rising", "dip_rise", "vee", "peak"}

ReplaySeries ==
    {Gen(shape, ReplayLen, 100, step) :
        shape \in ReplayShapes, step \in 1..MaxStep}

\* the <<bar, short, long>> of the Golden cross signals in a signal list
GoldenAt(b, signals) ==
    {<<b, signals[k][2], signals[k][3]>> :
        k \in {j \in 1..Len(signals) : signals[j][1] = "Golden cross"}}

InitReplay ==
    /\ MoreIdle
    /\ ohlcv = NoFrame
    /\ tech = Idle
    /\ replay \in {[series |-> s, bar |-> 0, golden |-> {}, detected |-> {}] :
                      s \in ReplaySeries}
    /\ ScreenIdle /\ WatchIdle

\* feed one more bar: analyze the prefix of bar + 1 bars
ReplayStep ==
    /\ replay.bar < Len(replay.series)
    /\ LET b == replay.bar + 1
           r == TechAnalyze(Frame(SubSeq(replay.series, 1, b)))
       IN  /\ ohlcv' = Frame(SubSeq(replay.series, 1, b))
           /\ tech' = r
           /\ replay' = [replay EXCEPT
                            !.bar = b,
                            !.golden = @ \cup GoldenAt(b, r.signals),
                            !.detected = @ \cup GoldenAt(b, r.locals.signals)]
    /\ UNCHANGED <<screenVars, watchVars, moreVars>>

NextReplay == ReplayStep

SpecReplay == InitReplay /\ [][NextReplay]_vars

Rising100 == Gen("rising", ReplayLen, 100, 1)

\* bars at which both SMAs are defined and the short one is above the long
AboveBars(series, short_p, long_p) ==
    {b \in 1..Len(series) :
        /\ _sma(series, short_p)[b].ok /\ _sma(series, long_p)[b].ok
        /\ _sma(series, short_p)[b].v > _sma(series, long_p)[b].v}

SetMin(S) == CHOOSE m \in S : \A x \in S : m <= x

\* C6 as stated: replaying close_i = 100 + i over 40 bars, the Golden cross
\* of the pair SMA5/SMA20 is emitted at exactly one bar, the bar where SMA5
\* first exceeds SMA20
C6_AsStated ==
    (replay.series = Rising100 /\ replay.bar = Len(Rising100)) =>
        {g[1] : g \in {x \in replay.golden : x[2] = 5 /\ x[3] = 20}}
            = {SetMin(AboveBars(Rising100, 5, 20))}

\* C6 amended: replaying close_i = 100 + i over 40 bars, no bar emits a
\* Golden cross, neither in a returned signal list nor in the list
\* _detect_signals builds: SMA5 is above SMA20 from the first bar where both
\* are defined, so no bar has previous short <= long
C6_NoGoldenOnRise ==
    (replay.series = Rising100) =>
        (replay.golden = {} /\ replay.detected = {})

C6_Witness ==
    /\ replay.series = Rising100
    /\ replay.bar = Len(Rising100)
    /\ replay.bar \in AboveBars(Rising100, 5, 20)
    /\ tech.locals.indicators.sma[5].v > tech.locals.indicators.sma[20].v

(***************************************************************************)
(* SpecScreen: one call of StockScreener.analyze                           *)
(***************************************************************************)
Info(pe, fpe, pb, roe, om, rg, eg, mc) ==
    [empty |-> FALSE,
     f |-> [k \in InfoKeys |->
              CASE k = "trailingPE" -> pe
                [] k = "forwardPE" -> fpe
                [] k = "priceToBook" -> pb
                [] k = "returnOnEquity" -> roe
                [] k = "operatingMargins" -> om
                [] k = "revenueGrowth" -> rg
                [] k = "earningsGrowth" -> eg
                [] k = "marketCap" -> mc
                [] OTHER -> RawNone]]

Cheap == Info(RawNum(10 * U), RawNone, RawNum(U), RawNum(U \div 4),
              RawNum((3 * U) \div 10), RawNum(U \div 5),
              RawNum((2 * U) \div 5), RawNum(1000 * U))
Dear == Info(RawNum(45 * U), RawNone, RawNum(8 * U), RawNum(U \div 50),
             RawNum((3 * U) \div 100), RawNum(-(U \div 10)),
             RawNum(-(U \div 5)), RawNone)
Mid == Info(RawText, RawNum(20 * U), RawNum((7 * U) \div 2),
            RawNum(12 * U), RawNum((12 * U) \div 100),
            RawNum((6 * U) \div 100), RawNone, RawNone)
Fair == Info(RawNum(18 * U), RawNone, RawNum(3 * U), RawNum((17 * U) \div 100),
             RawNum((11 * U) \div 100), RawNum((77 * U) \div 1000),
             RawNum((13 * U) \div 100), RawNone)
Blank == Info(RawNone, RawNone, RawNone, RawNone, RawNone, RawNone, RawNone,
              RawNone)
Overflowing == Info(RawNum(10 * U), RawNone, RawNum(U), RawNone, RawNone,
                    RawNone, RawNone, RawHuge)

Got(info) == [kind |-> "info", info |-> info]
Failing == [kind |-> "error", info |-> EmptyInfo]
Always(outcome) == [i \in 1..stop_after_attempt |-> outcome]

Providers ==
    {Always(Got(i)) : i \in {Cheap, Dear, Mid, Fair, Blank, Overflowing,
                             EmptyInfo}}
    \cup {Always(Failing)}
    \cup {[i \in 1..stop_after_attempt |->
              IF i = 1 THEN Failing ELSE Got(Cheap)]}

\* weights that sum to 1; an empty dict falls back to 0.5 / 0.5
WeightChoices ==
    {[technical |-> Some(w), fundamental |-> Some(100 - w)] :
        w \in {30, 50, 70, 100}}
    \cup {[technical |-> None, fundamental |-> None]}

ScreenFrames ==
    {NoFrame, Frame(<<>>)} \cup
    {Frame(Gen(shape, n, 100, step)) :
        shape \in {"flat", "zigzag", "falling", "crash", "spike", "dip_rise"},
        n \in {MinBars - 1, MinBars, 40}, step \in {MaxStep}}

InitScreen ==
    /\ MoreIdle
    /\ ohlcv \in ScreenFrames
    /\ provider \in Providers
    /\ weights \in WeightChoices
    /\ comp = Idle
    /\ tech = Idle /\ replay = Idle
    /\ WatchIdle

ScreenCall ==
    /\ comp = Idle
    /\ comp' = ScreenAnalyze(ohlcv, provider, weights)
    /\ UNCHANGED <<techVars, provider, weights, watchVars, moreVars>>

NextScreen == ScreenCall

SpecScreen == InitScreen /\ [][NextScreen]_vars

Tiers == {"strong_positive", "positive", "neutral", "negative"}

\* C7: the composite score is round(clamp(tech * w_tech + fund * w_fund,
\* 0, 100), 1) for weights summing to 1; computed here in thousandths from
\* the result's own technical_score and fundamental_score
C7_CompositeFormula ==
    (comp # Idle /\ comp.status = "returned") =>
        LET wt == WeightGet(weights.technical)
            wf == WeightGet(weights.fundamental)
            t == comp.technical_score \div (U \div 10)
            f == comp.fundamental_score \div (U \div 10)
            x == t * wt + f * wf
        IN  /\ wt + wf = 100
            /\ InUnit(comp.technical_score, 100)
            /\ InUnit(comp.fundamental_score, 100)
            /\ comp.score
                 = RoundTo(Max2(0, Min2(100000, x)), 100) * (U \div 1000)

C7_Witness ==
    /\ comp # Idle /\ comp.status = "returned"
    /\ weights.technical = Some(30)
    /\ comp.technical_score # comp.fundamental_score
    /\ comp.technical_score # 50 * U
    /\ comp.fundamental_score # 50 * U
    /\ comp.score # comp.technical_score

TechRaises(frame) == TechAnalyze(frame).status = "raised"
FundRaises(p) == FundAnalyze(p).status = "raised"

\* C9: analyze always returns a composite result with a recommendation; a
\* raising Technical Scorer is replaced by score 50 with empty signals and
\* indicators, a raising Fundamental Scorer by score 50 with empty data
C9_NoPropagation ==
    (comp # Idle) =>
        /\ comp.status = "returned"
        /\ comp.recommendation \in Tiers
        /\ TechRaises(ohlcv) =>
              /\ comp.technical_score = 50 * U
              /\ comp.signals = <<>>
              /\ comp.technical_indicators = EmptyDict
        /\ FundRaises(provider) =>
              /\ comp.fundamental_score = 50 * U
              /\ comp.fundamental_data = EmptyDict

C9_Witness ==
    /\ comp # Idle /\ comp.status = "returned"
    /\ comp.log = <<"technical_analysis_error", "fundamental_analysis_error">>
    /\ Len(ohlcv.Close) >= MinBars
    /\ comp.recommendation = "neutral"

(***************************************************************************)
(* SpecClassify: _classify_recommendation on every one-decimal score       *)
(***************************************************************************)
InitClassify ==
    /\ MoreIdle
    /\ cls \in {[score |-> k * (U \div 10), rec |-> "none"] : k \in 0..1000}
    /\ watch = Idle /\ screened = Idle
    /\ ohlcv = NoFrame /\ tech = Idle /\ replay = Idle
    /\ ScreenIdle

Classify ==
    /\ cls.rec = "none"
    /\ cls' = [cls EXCEPT !.rec = _classify_recommendation(cls.score)]
    /\ UNCHANGED <<techVars, screenVars, watch, screened, moreVars>>

NextClassify == Classify

SpecClassify == InitClassify /\ [][NextClassify]_vars

\* C8: the recommendation is a total function of the score with tiers closed
\* below: >= 80 strong_positive, [60, 80) positive, [40, 60) neutral,
\* < 40 negative
C8_Tiers ==
    (cls.rec # "none") =>
        /\ cls.rec \in Tiers
        /\ (cls.score >= 80 * U) <=> (cls.rec = "strong_positive")
        /\ (60 * U <= cls.score /\ cls.score < 80 * U)
              <=> (cls.rec = "positive")
        /\ (40 * U <= cls.score /\ cls.score < 60 * U)
              <=> (cls.rec = "neutral")
        /\ (cls.score < 40 * U) <=> (cls.rec = "negative")
        /\ (cls.score = (799 * U) \div 10) => (cls.rec = "positive")
        /\ (cls.score = (399 * U) \div 10) => (cls.rec = "negative")

C8_Witness == cls.score = 80 * U /\ cls.rec = "strong_positive"

(***************************************************************************)
(* SpecWatch: one call of StockScreener.screen_watchlist                   *)
(***************************************************************************)
MaxTopN == 3

Watchlist == <<"A", "B", "C">>

\* what one ticker brings: its frame (NoFrame: no entry in ohlcv_data) and
\* its provider
Profiles ==
    {[frame |-> NoFrame, provider |-> Always(Got(Cheap))],
     [frame |-> Frame(<<>>), provider |-> Always(Got(Cheap))],
     [frame |-> Frame(Gen("zigzag", MinBars, 100, 1)),
      provider |-> Always(Got(Cheap))],
     [frame |-> Frame(Gen("falling", MinBars, 100, 1)),
      provider |-> Always(Got(Dear))],
     [frame |-> Frame(Gen("flat", MinBars, 100, 1)),
      provider |-> Always(Failing)],
     [frame |-> Frame(Gen("spike", MinBars - 1, 100, 1)),
      provider |-> Always(Got(Fair))]}

InitWatch ==
    /\ MoreIdle
    /\ watch \in {[watchlist |-> Watchlist,
                   ohlcv_data |-> [t \in SeqRange(Watchlist) |-> pr[t].frame],
                   providers |-> [t \in SeqRange(Watchlist) |->
                                     pr[t].provider],
                   top_n |-> n] :
                     pr \in [SeqRange(Watchlist) -> Profiles],
                     n \in 1..MaxTopN}
    /\ weights = DefaultWeights
    /\ screened = Idle
    /\ cls = Idle
    /\ ohlcv = NoFrame /\ tech = Idle /\ replay = Idle
    /\ provider = Idle /\ comp = Idle

ScreenWatchlistCall ==
    /\ screened = Idle
    /\ screened' = ScreenWatchlist(watch.watchlist, watch.ohlcv_data,
                                   watch.providers, weights, watch.top_n)
    /\ UNCHANGED <<techVars, screenVars, cls, watch, moreVars>>

NextWatch == ScreenWatchlistCall

SpecWatch == InitWatch /\ [][NextWatch]_vars

Eligible ==
    {t \in SeqRange(watch.watchlist) :
        watch.ohlcv_data[t].present /\ ~IsEmpty(watch.ohlcv_data[t])}

ScoreOf(t) ==
    ScreenAnalyze(watch.ohlcv_data[t], watch.providers[t], weights).score

\* C10: screen_watchlist returns only watchlist tickers with a non-empty
\* series, by composite score non-increasing, at most top_n of them, and
\* no eligible ticker left out scores higher than a returned one
C10_TopN ==
    (screened # Idle) =>
        /\ screened.status = "returned"
        /\ LET res == screened.analyses
               kept == {res[i].ticker : i \in 1..Len(res)}
           IN  /\ kept \subseteq Eligible
               /\ Cardinality(kept) = Len(res)
               /\ \A i \in 1..Len(res) :
                     res[i].composite_score = ScoreOf(res[i].ticker)
               /\ \A i, j \in 1..Len(res) :
                     i < j => res[i].composite_score >= res[j].composite_score
               /\ Len(res) <= watch.top_n
               /\ Len(res) = Min2(watch.top_n, Cardinality(Eligible))
               /\ \A t \in Eligible \ kept : \A i \in 1..Len(res) :
                     ScoreOf(t) <= res[i].composite_score

C10_Witness ==
    /\ screened # Idle /\ screened.status = "returned"
    /\ Cardinality(Eligible) = 3
    /\ watch.top_n = 2
    /\ Len(screened.analyses) = 2
    /\ screened.analyses[1].ticker = "C"
    /\ screened.analyses[1].composite_score
          > screened.analyses[2].composite_score

(***************************************************************************)
(* SpecFund: one call of FundamentalAnalyzer.analyze; the provider is the  *)
(* sequence of outcomes the successive reads of the fundamentals would     *)
(* have                                                                    *)
(***************************************************************************)
SixMetrics == {"per", "pbr", "roe", "operating_margin", "revenue_growth",
               "earnings_growth"}

\* the payload Fair with only the metrics of `have` present
Sparse(have) ==
    Info(IF "per" \in have THEN RawNum(18 * U) ELSE RawNone,
         RawNone,
         IF "pbr" \in have THEN RawNum(3 * U) ELSE RawNone,
         IF "roe" \in have THEN RawNum((17 * U) \div 100) ELSE RawNone,
         IF "operating_margin" \in have THEN RawNum((11 * U) \div 100)
         ELSE RawNone,
         IF "revenue_growth" \in have THEN RawNum((77 * U) \div 1000)
         ELSE RawNone,
         IF "earnings_growth" \in have THEN RawNum((13 * U) \div 100)
         ELSE RawNone,
         RawNum(1000 * U))

FundOutcomes == {Failing, Got(EmptyInfo), Got(Cheap), Got(Dear)}

FundProviders ==
    [1..stop_after_attempt -> FundOutcomes]
    \cup {Always(Got(Sparse(have))) : have \in SUBSET SixMetrics}
    \cup {Always(Got(i)) : i \in {Mid, Fair, Blank, Overflowing}}

InitFund ==
    /\ CallsIdle /\ ScanIdle /\ ScoreIdle
    /\ provider \in FundProviders
    /\ fund = Idle
    /\ FearIdle /\ DiagIdle /\ TrendIdle
    /\ ohlcv = NoFrame /\ tech = Idle /\ replay = Idle
    /\ weights = Idle /\ comp = Idle
    /\ WatchIdle

FundCall ==
    /\ fund = Idle
    /\ fund' = FundAnalyze(provider)
    /\ UNCHANGED <<techVars, screenVars, watchVars, fearVars, diagVars,
                   trendVars, callVars, scanVars, scoreVars>>

NextFund == FundCall

SpecFund == InitFund /\ [][NextFund]_vars

FundCalled == fund.status # "idle"

NeutralFundResult ==
    /\ fund.status = "returned"
    /\ fund.score = 50 * U
    /\ fund.data = EmptyDict
    /\ fund.metrics = [empty |-> FALSE, error |-> "no_data"]

\* attempts at which the read of the fundamentals does not fail
Successes == {i \in 1..stop_after_attempt : provider[i].kind = "info"}

\* C11: a failed read is retried, up to 3 attempts in total: the result is
\* the one computed from the payload of the first attempt that does not
\* fail, and the neutral result is returned only when all attempts failed
\* or that payload is empty
C11_RetryUntilSuccess ==
    FundCalled =>
        IF Successes = {} THEN NeutralFundResult
        ELSE LET payload == provider[SetMin(Successes)].info
             IN  IF payload.empty THEN NeutralFundResult
                 ELSE fund = FundAnalyze(Always(Got(payload)))

Unavailable(m) == fund.data[m] = None

\* C13: for a non-empty payload, a metric that is None adds nothing to its
\* sub-score: its contribution is 0, a group whose two metrics are None
\* scores its midpoint (16.5, 16.5, 17), and with all six None the score is
\* 50.0
C13_NullMetricNeutral ==
    (FundCalled /\ fund.status = "returned" /\ ~fund.data.empty) =>
        LET d == fund.data
            mid == (165 * U) \div 10
        IN  /\ (Unavailable("per") /\ Unavailable("pbr"))
                    => _valuation_score(d) = mid
            /\ (Unavailable("roe") /\ Unavailable("operating_margin"))
                    => _profitability_score(d) = mid
            /\ (Unavailable("revenue_growth")
                    /\ Unavailable("earnings_growth"))
                    => _growth_score(d) = 17 * U
            /\ \A m \in {"per", "pbr"} :
                    Unavailable(m) => ValuationPart(d[m], per_max) = 0
            /\ \A m \in SixMetrics \ {"per", "pbr"} :
                    Unavailable(m) => ThresholdPart(d[m], roe_min, 5, 825) = 0
            /\ (\A m \in SixMetrics : Unavailable(m))
                    => fund.score = 50 * U

C13_Witness ==
    /\ FundCalled /\ fund.status = "returned" /\ ~fund.data.empty
    /\ \A m \in SixMetrics : Unavailable(m)
    /\ fund.data.market_cap = Some(1000 * U)
    /\ fund.score = 50 * U

(***************************************************************************)
(* SpecFearGreed: one call of compute_fear_greed                           *)
(***************************************************************************)
MaxIndices == 3
SentiLen == 25

VixLevels == {5 * U, 10 * U, (25 * U) \div 2, 20 * U, (267 * U) \div 10,
              40 * U, 45 * U}

\* an index frame of n bars with all its columns, High and Low one step
\* from the close
IndexFrame(shape, n, step) ==
    DataFrame({"Open", "High", "Low", "Close", "Volume"},
              [i \in 1..n |-> U * (GenAt(shape, n, 100, step, i) + step)],
              [i \in 1..n |-> U * (GenAt(shape, n, 100, step, i) - step)],
              Gen(shape, n, 100, step))

NoClose(df) == [df EXCEPT !.cols = @ \ {"Close"}]

IndexFrames ==
    {IndexFrame("flat", SentiLen, 1), IndexFrame("rising", 20, 1),
     IndexFrame("zigzag", 20, 2), IndexFrame("falling", SentiLen, 2),
     IndexFrame("zigzag", 19, 1),
     NoClose(IndexFrame("zigzag", SentiLen, 1))}

IndexLists ==
    UNION {[1..n -> IndexFrames] : n \in 0..MaxIndices}

InitFearGreed ==
    /\ CallsIdle /\ ScanIdle /\ ScoreIdle
    /\ vix \in VixLevels
    /\ indices \in IndexLists
    /\ fear_greed = Idle /\ lvl = Idle
    /\ fund = Idle /\ DiagIdle /\ TrendIdle
    /\ ohlcv = NoFrame /\ tech = Idle /\ replay = Idle
    /\ ScreenIdle /\ WatchIdle

FearGreedCall ==
    /\ fear_greed = Idle
    /\ fear_greed' = compute_fear_greed(vix, indices)
    /\ UNCHANGED <<techVars, screenVars, watchVars, fund, vix, indices, lvl,
                   diagVars, trendVars, callVars, scanVars, scoreVars>>

NextFearGreed == FearGreedCall

SpecFearGreed == InitFearGreed /\ [][NextFearGreed]_vars

FgCalled == fear_greed.status # "idle"

With20Bars == {k \in 1..Len(indices) : indices[k].len >= 20}

\* the close of index k fell at least once, so that its RSI is defined
HasFall(k) ==
    \E i \in 2..indices[k].len :
        indices[k].Close[i] < indices[k].Close[i - 1]

DefaultsWhenEmpty ==
    LET l == fear_greed.locals
    IN  /\ (Len(l.rsi_values) = 0) => l.rsi_score = 50 * U
        /\ (Len(l.momentum_values) = 0) => l.momentum_score = 50 * U
        /\ (Len(l.rsi_values) = 0 /\ Len(l.momentum_values) = 0) =>
              fear_greed.score * 10 = RoundTo(4 * l.vix_score + 300 * U, U)

\* C16 as stated: an index contributes to the RSI average and to the
\* momentum average exactly when it has at least 20 bars; a component
\* without contribution scores 50
C16_AsStated ==
    FgCalled =>
        /\ Len(fear_greed.locals.rsi_values) = Cardinality(With20Bars)
        /\ Len(fear_greed.locals.momentum_values) = Cardinality(With20Bars)
        /\ DefaultsWhenEmpty

\* C16 amended: an index contributes to the momentum average exactly when
\* it has at least 20 bars and a Close column, and to the RSI average
\* exactly when moreover its close fell at least once (its RSI is undefined
\* otherwise); a component without contribution scores 50, and with no
\* contribution at all the score is round(0.4 * vix_component + 30, 1)
C16_Contributions ==
    FgCalled =>
        LET usable == {k \in With20Bars : "Close" \in indices[k].cols}
        IN  /\ Len(fear_greed.locals.momentum_values) = Cardinality(usable)
            /\ Len(fear_greed.locals.rsi_values)
                  = Cardinality({k \in usable : HasFall(k)})
            /\ DefaultsWhenEmpty

C16_Witness ==
    /\ FgCalled
    /\ indices = <<IndexFrame("rising", 20, 1), IndexFrame("zigzag", 19, 1),
                   IndexFrame("zigzag", 20, 2)>>
    /\ Len(fear_greed.locals.momentum_values) = 2
    /\ Len(fear_greed.locals.rsi_values) = 1

(***************************************************************************)
(* SpecLevel: the level label of compute_fear_greed on every rounded score *)
(***************************************************************************)
Levels == <<"Extreme Fear", "Fear", "Neutral", "Greed", "Extreme Greed">>

InitLevel ==
    /\ CallsIdle /\ ScanIdle /\ ScoreIdle
    /\ lvl \in {[score |-> k * (U \div 10), level |-> "none"] : k \in 0..1000}
    /\ vix = Idle /\ indices = Idle /\ fear_greed = Idle
    /\ fund = Idle /\ DiagIdle /\ TrendIdle
    /\ ohlcv = NoFrame /\ tech = Idle /\ replay = Idle
    /\ ScreenIdle /\ WatchIdle

LevelCall ==
    /\ lvl.level = "none"
    /\ lvl' = [lvl EXCEPT !.level = Level(lvl.score)]
    /\ UNCHANGED <<techVars, screenVars, watchVars, fund, vix, indices,
                   fear_greed, diagVars, trendVars, callVars, scanVars, scoreVars>>

NextLevel == LevelCall

SpecLevel == InitLevel /\ [][NextLevel]_vars

\* C15: every rounded score gets a level, the one whose rank is the number
\* of thresholds 20 / 40 / 60 / 80 the score has reached (lower bounds
\* included), so the level never falls when the score rises; 80 is Extreme
\* Greed and 59.9 is Neutral
C15_LevelThresholds ==
    (lvl.level # "none") =>
        /\ \E r \in 1..Len(Levels) :
              /\ lvl.level = Levels[r]
              /\ r - 1 = Cardinality({t \in {20, 40, 60, 80} :
                                        lvl.score >= t * U})
        /\ (lvl.score = (599 * U) \div 10) => lvl.level = "Neutral"
        /\ (lvl.score = 60 * U) => lvl.level = "Greed"

C15_Witness == lvl.score = 80 * U /\ lvl.level = "Extreme Greed"

(***************************************************************************)
(* SpecDiagnosis: one call of market_diagnosis on a Fear/Greed result and  *)
(* a list of trend summaries                                               *)
(***************************************************************************)
MaxTrends == 2

Directions == {"Bullish", "Bearish", "N/A"}
RsiStates == {"Overbought", "Oversold", "Neutral", "N/A"}

TrendEntries ==
    [supertrend_direction : Directions, rsi_state : RsiStates]

TrendLists == UNION {[1..n -> TrendEntries] : n \in 0..MaxTrends}

\* rounded Fear/Greed scores on and around the thresholds of the rules
DiagScores ==
    {k * (U \div 10) : k \in {0, 199, 200, 201, 399, 400, 401, 500, 599,
                               600, 601, 799, 800, 801, 1000}}

InitDiagnosis ==
    /\ CallsIdle /\ ScanIdle /\ ScoreIdle
    /\ fear_greed \in {[status |-> "returned", score |-> sc,
                         level |-> Level(sc)] : sc \in DiagScores}
    /\ trends \in TrendLists
    /\ diagnosis = Idle
    /\ vix = Idle /\ indices = Idle /\ lvl = Idle
    /\ fund = Idle /\ TrendIdle
    /\ ohlcv = NoFrame /\ tech = Idle /\ replay = Idle
    /\ ScreenIdle /\ WatchIdle

DiagnosisCall ==
    /\ diagnosis = Idle
    /\ diagnosis' = market_diagnosis(fear_greed, trends)
    /\ UNCHANGED <<techVars, screenVars, watchVars, fund, fearVars, trends,
                   trendVars, callVars, scanVars, scoreVars>>

NextDiagnosis == DiagnosisCall

SpecDiagnosis == InitDiagnosis /\ [][NextDiagnosis]_vars

Diagnosed == diagnosis.status # "idle"

CountOf(field, value) ==
    Cardinality({k \in 1..Len(trends) : trends[k][field] = value})

\* bullish minus bearish evidence of the trend list, counted in halves
NetHalves ==
    2 * CountOf("supertrend_direction", "Bullish")
        + CountOf("rsi_state", "Oversold")
        - 2 * CountOf("supertrend_direction", "Bearish")
        - CountOf("rsi_state", "Overbought")

\* C17: the verdict is that of the first matching rule in the order
\* Bullish (fg >= 60, net > 0), Bearish (fg <= 40, net < 0), Caution
\* (fg >= 80), Opportunity (fg <= 20), Neutral; so fg >= 80 with net > 0
\* is Bullish and 40 < fg < 60 is Neutral
C17_VerdictOrder ==
    Diagnosed =>
        LET fg == fear_greed.score
            v == diagnosis.verdict
            bull == fg >= 60 * U /\ NetHalves > 0
            bear == fg <= 40 * U /\ NetHalves < 0
        IN  /\ bull => v = "Bullish"
            /\ (~bull /\ bear) => v = "Bearish"
            /\ (~bull /\ ~bear /\ fg >= 80 * U) => v = "Caution (Overbought)"
            /\ (~bull /\ ~bear /\ fg < 80 * U /\ fg <= 20 * U)
                  => v = "Opportunity (Oversold)"
            /\ (~bull /\ ~bear /\ fg < 80 * U /\ fg > 20 * U)
                  => v = "Neutral"
            /\ (fg >= 80 * U /\ NetHalves > 0) => v = "Bullish"
            /\ (40 * U < fg /\ fg < 60 * U) => v = "Neutral"

C17_Witness ==
    /\ Diagnosed
    /\ fear_greed.score >= 80 * U
    /\ NetHalves > 0
    /\ diagnosis.verdict = "Bullish"

\* C18: bullish_signals is the number of Bullish supertrends plus half the
\* number of Oversold RSI states, bearish_signals the number of Bearish
\* supertrends plus half the number of Overbought ones, net_signal their
\* difference; N/A entries count on neither side, an empty list gives 0
C18_SignalTally ==
    Diagnosed =>
        /\ diagnosis.bullish_signals
              = U * CountOf("supertrend_direction", "Bullish")
                  + (U \div 2) * CountOf("rsi_state", "Oversold")
        /\ diagnosis.bearish_signals
              = U * CountOf("supertrend_direction", "Bearish")
                  + (U \div 2) * CountOf("rsi_state", "Overbought")
        /\ diagnosis.net_signal
              = diagnosis.bullish_signals - diagnosis.bearish_signals
        /\ (\A k \in 1..Len(trends) :
                /\ trends[k].supertrend_direction = "N/A"
                /\ trends[k].rsi_state \in {"N/A", "Neutral"})
              => (diagnosis.bullish_signals = 0
                    /\ diagnosis.bearish_signals = 0)
        /\ (Len(trends) = 0) => diagnosis.net_signal = 0

C18_Witness ==
    /\ Diagnosed
    /\ trends = <<[supertrend_direction |-> "Bullish",
                   rsi_state |-> "Overbought"],
                  [supertrend_direction |-> "N/A", rsi_state |-> "N/A"]>>
    /\ diagnosis.bullish_signals = U
    /\ diagnosis.bearish_signals = U \div 2
    /\ diagnosis.net_signal = U \div 2

(***************************************************************************)
(* SpecTrend: one call of compute_trend_strength                           *)
(***************************************************************************)
TrendLen == 36

TrendShapes == {"flat", "rising", "falling", "zigzag", "crash", "spike",
                "vee", "sway", "drift"}

\* sway and drift are zigzags on a slow and on a fast rise
TrendAt(shape, n, step, i) ==
    CASE shape = "sway" -> 100 + step * (2 * ((i + 1) % 2) + i \div 2)
      [] shape = "drift" -> 100 + step * (3 * (i % 2) + i)
      [] OTHER -> GenAt(shape, n, 100, step, i)

TrendFrame(shape, n, step, cols) ==
    DataFrame(cols,
              [i \in 1..n |-> U * (TrendAt(shape, n, step, i) + step)],
              [i \in 1..n |-> U * (TrendAt(shape, n, step, i) - step)],
              [i \in 1..n |-> U * TrendAt(shape, n, step, i)])

AllColumns == {"Open", "High", "Low", "Close", "Volume"}
ColumnSets == {AllColumns, AllColumns \ {"High"}, AllColumns \ {"Low"},
               AllColumns \ {"Close"}, {"Close"}}

TrendFrames ==
    {TrendFrame(shape, n, step, cols) :
        shape \in TrendShapes, n \in {29, 30, 31, TrendLen},
        step \in {1, 2}, cols \in ColumnSets}

InitTrend ==
    /\ CallsIdle /\ ScanIdle /\ ScoreIdle
    /\ trend_df \in TrendFrames
    /\ strength = Idle
    /\ fund = Idle /\ FearIdle /\ DiagIdle
    /\ ohlcv = NoFrame /\ tech = Idle /\ replay = Idle
    /\ ScreenIdle /\ WatchIdle

TrendCall ==
    /\ strength = Idle
    /\ strength' = compute_trend_strength("IDX", "Index", trend_df)
    /\ UNCHANGED <<techVars, screenVars, watchVars, fund, fearVars, diagVars,
                   trend_df, callVars, scanVars, scoreVars>>

NextTrend == TrendCall

SpecTrend == InitTrend /\ [][NextTrend]_vars

TrendCalled == strength.status # "idle"

AdxBlank ==
    /\ strength.adx = None /\ strength.adx_trend = "N/A"
    /\ strength.supertrend_direction = "N/A"
RsiBlank == strength.rsi = None /\ strength.rsi_state = "N/A"

\* the close of the frame fell at least once, so that its RSI is defined
CloseFell ==
    \E i \in 2..trend_df.len : trend_df.Close[i] < trend_df.Close[i - 1]

RsiLabelled ==
    /\ strength.rsi.ok
    /\ strength.rsi.v = Round1(strength.locals.rsi_val.v)
    /\ strength.rsi_state
          = (IF strength.locals.rsi_val.v >= 70 * U THEN "Overbought"
             ELSE IF strength.locals.rsi_val.v <= 30 * U THEN "Oversold"
             ELSE "Neutral")

AdxLabelled ==
    strength.adx.ok =>
        /\ strength.adx.v = Round1(strength.locals.adx_val.v)
        /\ strength.adx_trend
              = (IF strength.locals.adx_val.v >= 25 * U THEN "Strong"
                 ELSE IF strength.locals.adx_val.v >= 20 * U THEN "Moderate"
                 ELSE "Weak")

Prerequisites ==
    /\ strength.status = "returned"
    /\ (trend_df.len < 30 \/ "Close" \notin trend_df.cols)
          => (AdxBlank /\ RsiBlank)
    /\ (/\ trend_df.len >= 30 /\ "Close" \in trend_df.cols
        /\ ~({"High", "Low"} \subseteq trend_df.cols))
          => AdxBlank
    /\ AdxLabelled

\* C19 as stated: no call raises; under 30 bars or without Close every field
\* is null / N/A; with 30 bars and Close but without High or Low the ADX
\* and Supertrend fields are null / N/A and rsi and rsi_state are computed;
\* the ADX label follows the thresholds 25 and 20
C19_AsStated ==
    TrendCalled =>
        /\ Prerequisites
        /\ (trend_df.len >= 30 /\ "Close" \in trend_df.cols) => RsiLabelled

\* C19 amended: as stated, except that rsi and rsi_state are computed
\* exactly when the RSI is defined, that is when the close fell at least
\* once, and stay null / N/A otherwise
C19_MissingPrerequisites ==
    TrendCalled =>
        /\ Prerequisites
        /\ (trend_df.len >= 30 /\ "Close" \in trend_df.cols) =>
              IF CloseFell THEN RsiLabelled ELSE RsiBlank

C19_Witness ==
    /\ TrendCalled
    /\ trend_df = TrendFrame("spike", 30, 2, AllColumns \ {"High"})
    /\ AdxBlank
    /\ strength.rsi_state = "Overbought"

\* the last element of the direction column of _supertrend(df)
LastDirection ==
    _supertrend(trend_df, 10, 3).direction[trend_df.len]

FullFrame == trend_df.len >= 30 /\ HasHlc(trend_df)

\* C30: on a frame with at least 30 bars and the columns High, Low and
\* Close the reported supertrend_direction is Bullish or Bearish, never
\* N/A, and it is Bullish exactly when the last direction is 1
C30_DirectionLabel ==
    (TrendCalled /\ FullFrame) =>
        /\ strength.supertrend_direction \in {"Bullish", "Bearish"}
        /\ strength.supertrend_direction = "Bullish" <=> LastDirection = 1

\* a rising frame of 30 bars with every column, reported Bearish because
\* its last direction is -1
C30_Witness ==
    /\ TrendCalled /\ FullFrame
    /\ trend_df = TrendFrame("rising", 30, 1, AllColumns)
    /\ LastDirection = -1
    /\ strength.supertrend_direction = "Bearish"

(***************************************************************************)
(* SpecInterleave: analyses of different tickers, run step by step in any  *)
(* order.  A call of TechnicalAnalyzer.analyze is the steps start,         *)
(* indicators, signals, score; a call of compute_trend_strength is the     *)
(* steps start, adx, bands, the loop of _supertrend in steps of Stride     *)
(* passes, rsi.  The analyzers hold no attribute that a call writes; the   *)
(* objects that a step can read or write are those of the heap and the     *)
(* local variables of the calls.                                           *)
(***************************************************************************)
MaxCalls == 2
CallBars == 30
Stride == 5

Tickers == 1..MaxCalls
Kinds == {"technical", "trend"}

\* the frame of a ticker
CallShapes == <<"zigzag", "spike", "sway">>
FrameFor(t) ==
    TrendFrame(CallShapes[((t - 1) % Len(CallShapes)) + 1], CallBars, t,
               AllColumns)

FrameColumns == {"High", "Low", "Close"}

\* heap with the object id holding val
Store(h, id, val) ==
    [x \in DOMAIN h \cup {id} |-> IF x = id THEN val ELSE h[x]]

\* the intermediate values of a call are local variables of that call
\* (technical.py lines 122-124, market_sentiment.py lines 108-153), not
\* attributes of the analyzer every call shares
Owner_instance(t) == 1
Owner(t) == t

LocalsOf(t) == calls[Owner(t)].locals

\* the frame of ticker t as the heap holds it
DfOf(t) ==
    DataFrame(AllColumns, heap[<<t, "High">>], heap[<<t, "Low">>],
              heap[<<t, "Close">>])
OhlcvOf(t) == Frame(heap[<<t, "Close">>])

NoLocals == [indicators |-> EmptyDict, signals |-> <<>>, adx_last |-> None,
             i |-> 0]

InitInterleave ==
    /\ heap = [id \in Tickers \X FrameColumns |-> FrameFor(id[1])[id[2]]]
    /\ \E kind \in [Tickers -> Kinds] :
          /\ calls = [t \in Tickers |->
                        [kind |-> kind[t], pc |-> "start",
                         locals |-> NoLocals, result |-> Idle]]
          /\ alone = [t \in Tickers |->
                        IF kind[t] = "technical"
                        THEN TechAnalyze(Frame(FrameFor(t).Close))
                        ELSE compute_trend_strength(t, "Index", FrameFor(t))]
    /\ fund = Idle /\ FearIdle /\ DiagIdle /\ TrendIdle
    /\ ScanIdle /\ ScoreIdle
    /\ ohlcv = NoFrame /\ tech = Idle /\ replay = Idle
    /\ ScreenIdle /\ WatchIdle

At(t, kind, pc) == calls[t].kind = kind /\ calls[t].pc = pc

Goto(t, pc) == [calls EXCEPT ![t].pc = pc]
Return(t, result) == [calls EXCEPT ![t].pc = "done", ![t].result = result]

Others == <<techVars, screenVars, watchVars, fund, fearVars, diagVars,
            trendVars, alone, scanVars, scoreVars>>

\* technical.py lines 102-120: the tests before any indicator
TechStart(t) ==
    /\ At(t, "technical", "start")
    /\ calls' = IF \/ ~OhlcvOf(t).present \/ IsEmpty(OhlcvOf(t))
                   \/ InsufficientData(OhlcvOf(t))
                THEN Return(t, TechAnalyze(OhlcvOf(t)))
                ELSE Goto(t, "indicators")
    /\ UNCHANGED <<heap, Others>>

\* line 122
TechIndicators(t) ==
    /\ At(t, "technical", "indicators")
    /\ calls' = [calls EXCEPT ![t].pc = "signals",
                              ![Owner(t)].locals.indicators =
                                  _compute_indicators(OhlcvOf(t))]
    /\ UNCHANGED <<heap, Others>>

\* line 123
TechSignals(t) ==
    /\ At(t, "technical", "signals")
    /\ calls' = [calls EXCEPT ![t].pc = "score",
                              ![Owner(t)].locals.signals =
                                  _detect_signals(OhlcvOf(t),
                                                  LocalsOf(t).indicators)]
    /\ UNCHANGED <<heap, Others>>

\* lines 124-142
TechScore(t) ==
    /\ At(t, "technical", "score")
    /\ calls' = Return(t, AnalyzeResult(OhlcvOf(t), LocalsOf(t).indicators,
                                        LocalsOf(t).signals,
                                        _compute_score(OhlcvOf(t),
                                            LocalsOf(t).indicators)))
    /\ UNCHANGED <<heap, Others>>

\* market_sentiment.py lines 108-122
TrendStart(t) ==
    /\ At(t, "trend", "start")
    /\ calls' = IF TooShort(DfOf(t)) THEN Return(t, BlankTrend(t, "Index"))
                ELSE IF HasHlc(DfOf(t)) THEN Goto(t, "adx")
                ELSE Goto(t, "rsi")
    /\ UNCHANGED <<heap, Others>>

\* lines 123-124
TrendAdx(t) ==
    /\ At(t, "trend", "adx")
    /\ calls' = [calls EXCEPT ![t].pc = "bands",
                              ![Owner(t)].locals.adx_last =
                                  LastValid(_adx(DfOf(t), 14).ADX)]
    /\ UNCHANGED <<heap, Others>>

\* trend.py lines 91-99: the Series _supertrend creates before its loop;
\* hl2 + multiplier * atr is a new Series
BandsCreated(t, upper, lower) ==
    Store(Store(Store(Store(heap,
        <<t, "upper_band">>, upper),
        <<t, "lower_band">>, lower),
        <<t, "supertrend">>, [i \in 1..Len(upper) |-> None]),
        <<t, "direction">>, [i \in 1..Len(upper) |-> 1])

TrendBands(t) ==
    /\ At(t, "trend", "bands")
    /\ heap' = BandsCreated(t, Band(DfOf(t), _atr(DfOf(t), 10), 1, 3),
                            Band(DfOf(t), _atr(DfOf(t), 10), -1, 3))
    /\ calls' = [calls EXCEPT ![t].pc = "bar", ![Owner(t)].locals.i = 2]
    /\ UNCHANGED Others

\* the writes of one pass of the loop (lines 109-138) at bar i
BarWritten(h, t, i, bar) ==
    [h EXCEPT ![<<t, "upper_band">>][i] = bar.upper,
              ![<<t, "lower_band">>][i] = bar.lower,
              ![<<t, "supertrend">>][i] = bar.st,
              ![<<t, "direction">>][i] = bar.direction]

BarOf(h, t, i) ==
    SupertrendBar(h[<<t, "Close">>][i], Some(h[<<t, "Close">>][i - 1]),
                  h[<<t, "upper_band">>][i], h[<<t, "lower_band">>][i],
                  [upper |-> h[<<t, "upper_band">>][i - 1],
                   lower |-> h[<<t, "lower_band">>][i - 1],
                   st |-> h[<<t, "supertrend">>][i - 1]])

\* the passes i .. last of the loop, on heap h
RECURSIVE Passes(_, _, _, _)
Passes(h, t, i, last) ==
    IF i > last THEN h
    ELSE Passes(BarWritten(h, t, i, BarOf(h, t, i)), t, i + 1, last)

LastBar(t) == Len(heap[<<t, "Close">>])

\* Stride passes of the loop of _supertrend (lines 101-138)
TrendBar(t) ==
    /\ At(t, "trend", "bar")
    /\ heap' = Passes(heap, t, LocalsOf(t).i,
                      Min2(LocalsOf(t).i + Stride - 1, LastBar(t)))
    /\ calls' = IF LocalsOf(t).i + Stride <= LastBar(t)
                THEN [calls EXCEPT ![Owner(t)].locals.i = @ + Stride]
                ELSE Goto(t, "rsi")
    /\ UNCHANGED Others

\* market_sentiment.py lines 136-155
TrendRsi(t) ==
    /\ At(t, "trend", "rsi")
    /\ calls' = Return(t, TrendResult(t, "Index", LocalsOf(t).adx_last,
                    IF HasHlc(DfOf(t))
                    THEN SupertrendDirection(heap[<<t, "direction">>])
                    ELSE "N/A",
                    LastValid(_rsi(heap[<<t, "Close">>], 14))))
    /\ UNCHANGED <<heap, Others>>

NextInterleave ==
    \E t \in Tickers :
        \/ TechStart(t) \/ TechIndicators(t) \/ TechSignals(t)
        \/ TechScore(t)
        \/ TrendStart(t) \/ TrendAdx(t) \/ TrendBands(t) \/ TrendBar(t)
        \/ TrendRsi(t)

SpecInterleave == InitInterleave /\ [][NextInterleave]_vars

Interleaving == calls # Idle

\* C20: whatever the order of the steps of the calls, each call returns
\* what its analysis returns when run by itself, and the columns of every
\* ticker's frame stay as they were given
C20_Isolation ==
    Interleaving =>
        /\ \A t \in Tickers :
              calls[t].pc = "done" => calls[t].result = alone[t]
        /\ \A t \in Tickers : \A c \in FrameColumns :
              heap[<<t, c>>] = FrameFor(t)[c]

\* the trend call on ticker 1 has returned, its bands still on the heap,
\* while the technical call on ticker 2 is between two of its steps
C20_Witness ==
    /\ Interleaving
    /\ calls[1].kind = "trend" /\ calls[1].pc = "done"
    /\ calls[2].kind = "technical" /\ calls[2].pc = "score"
    /\ calls[1].result.supertrend_direction # "N/A"
    /\ <<1, "upper_band">> \in DOMAIN heap

(***************************************************************************)
(* SpecSupertrend: one call of _supertrend with its default period and     *)
(* multiplier, the forward scan taken one bar at a time                    *)
(***************************************************************************)
ScanLen == 30

ScanShapes == {"flat", "rising", "falling", "zigzag", "crash", "spike",
               "vee", "peak", "sway", "drift"}

ScanFrames ==
    {TrendFrame(shape, n, step, AllColumns) :
        shape \in ScanShapes, n \in {1, 2, 9, 10, 11, ScanLen},
        step \in {1, 2}}

InitSupertrend ==
    /\ scan_df \in {[df |-> df, period |-> 10, multiplier |-> 3] :
                        df \in ScanFrames}
    /\ scan = Idle
    /\ fund = Idle /\ FearIdle /\ DiagIdle /\ TrendIdle /\ CallsIdle
    /\ ScoreIdle
    /\ ohlcv = NoFrame /\ tech = Idle /\ replay = Idle
    /\ ScreenIdle /\ WatchIdle

ScanOthers == <<techVars, screenVars, watchVars, fund, fearVars, diagVars,
                trendVars, callVars, scoreVars, scan_df>>

\* trend.py lines 91-99: atr, the two bands, and the columns supertrend
\* (NaN) and direction (1) before the loop; bars holds bar 1, which the
\* loop does not visit
ScanBegun(df, atr, multiplier) ==
    [status |-> "scanning", atr |-> atr,
     upper_band |-> Band(df, atr, 1, multiplier),
     lower_band |-> Band(df, atr, -1, multiplier),
     bars |-> SupertrendBars(df, Band(df, atr, 1, multiplier),
                             Band(df, atr, -1, multiplier), 1)]

ScanStart ==
    /\ scan = Idle
    /\ scan' = ScanBegun(scan_df.df, _atr(scan_df.df, scan_df.period),
                         scan_df.multiplier)
    /\ UNCHANGED ScanOthers

\* one pass of the loop (lines 101-138), at the bar after the last one done
ScanBar ==
    /\ scan.status = "scanning"
    /\ Len(scan.bars) < scan_df.df.len
    /\ scan' = [scan EXCEPT !.bars =
                    AppendBar(scan_df.df, scan.upper_band, scan.lower_band,
                              Len(scan.bars) + 1, scan.bars)]
    /\ UNCHANGED ScanOthers

\* lines 140-143
ScanReturn ==
    /\ scan.status = "scanning"
    /\ Len(scan.bars) = scan_df.df.len
    /\ scan' = [scan EXCEPT !.status = "returned"]
    /\ UNCHANGED ScanOthers

NextSupertrend == ScanStart \/ ScanBar \/ ScanReturn

SpecSupertrend == InitSupertrend /\ [][NextSupertrend]_vars

Scanned == scan.status = "returned"
ScanBarCount == scan_df.df.len
ScanClose(i) == Some(scan_df.df.Close[i])

\* the first bar the loop decides a direction at: the first one after bar 1
\* whose bands are computed, that is whose ATR is defined
Decided(i) == i >= 2 /\ scan.atr[i].ok
FirstDecided == SetMin({i \in 2..ScanBarCount + 1 :
                           i = ScanBarCount + 1 \/ Decided(i)})

\* the sticky band of C22: hl2 + 3 * atr at the first bar where ATR is
\* defined, and from then on the rule of lines 106-114
RECURSIVE ActiveUpper(_)
ActiveUpper(i) ==
    IF ~scan.atr[i].ok THEN None
    ELSE IF i = 1 \/ ~scan.atr[i - 1].ok THEN scan.upper_band[i]
    ELSE UpperAdjusted(scan.upper_band[i], ActiveUpper(i - 1),
                       ScanClose(i - 1))
RECURSIVE ActiveLower(_)
ActiveLower(i) ==
    IF ~scan.atr[i].ok THEN None
    ELSE IF i = 1 \/ ~scan.atr[i - 1].ok THEN scan.lower_band[i]
    ELSE LowerAdjusted(scan.lower_band[i], ActiveLower(i - 1),
                       ScanClose(i - 1))

\* C21: after the first decided bar, the direction goes from down to up
\* at a bar exactly when its close is above the active upper band, and
\* from up to down exactly when its close is below the active lower band
C21_FlipRule ==
    Scanned =>
        \A i \in 2..ScanBarCount :
            (Decided(i) /\ Decided(i - 1)) =>
                /\ scan.bars[i - 1].direction = -1 =>
                      (scan.bars[i].direction = 1
                          <=> Gt(ScanClose(i), ActiveUpper(i)))
                /\ scan.bars[i - 1].direction = 1 =>
                      (scan.bars[i].direction = -1
                          <=> Lt(ScanClose(i), ActiveLower(i)))

\* C22: at every bar where ATR is defined the adjusted bands are numbers;
\* from the second such bar on the lower band is not below the previous
\* bar's unless the previous close was below that one, and the upper band
\* is not above the previous bar's unless the previous close was above it
C22_StickyBands ==
    Scanned =>
        \A i \in 2..ScanBarCount :
            Decided(i) =>
                /\ scan.bars[i].upper.ok /\ scan.bars[i].lower.ok
                /\ Decided(i - 1) =>
                      /\ \/ ~Lt(scan.bars[i].lower, scan.bars[i - 1].lower)
                         \/ Lt(ScanClose(i - 1), scan.bars[i - 1].lower)
                      /\ \/ ~Gt(scan.bars[i].upper, scan.bars[i - 1].upper)
                         \/ Gt(ScanClose(i - 1), scan.bars[i - 1].upper)

\* C23: the supertrend column is NaN at index 0 and a number at index 1
\* (bar 2), and the direction is 1 at every bar before the first decided
\* one
C23_FirstValues ==
    Scanned =>
        /\ ~scan.bars[1].st.ok
        /\ ScanBarCount >= 2 => scan.bars[2].st.ok
        /\ \A i \in 1..FirstDecided - 1 : scan.bars[i].direction = 1

(***************************************************************************)
(* SpecSignals: one call of TechnicalAnalyzer.analyze on the first n bars  *)
(* of a series, for every n from the 30-bar floor on                       *)
(***************************************************************************)
SigLen == 80
SigPivot == SigLen \div 2

SignalShapes == {"flat", "zigzag", "vee", "peak", "ledge_up", "ledge_down",
                 "vee_spike", "peak_crash", "spike", "crash"}

\* bar i of a series of n bars
SignalAt(shape, n, step, i) ==
    CASE shape = "vee" -> 100 + step * Abs(i - SigPivot)
      [] shape = "peak" -> 300 - step * Abs(i - SigPivot)
      [] shape = "ledge_up" ->
            IF i <= SigPivot THEN 100 ELSE 100 + step * (i - SigPivot)
      [] shape = "ledge_down" ->
            IF i <= SigPivot THEN 300 ELSE 300 - step * (i - SigPivot)
      [] shape = "vee_spike" ->
            IF i = n THEN 100 + step * (Abs(i - SigPivot) + 10)
            ELSE 100 + step * Abs(i - SigPivot)
      [] shape = "peak_crash" ->
            IF i = n THEN 300 - step * (Abs(i - SigPivot) + 10)
            ELSE 300 - step * Abs(i - SigPivot)
      [] OTHER -> GenAt(shape, n, 100, step, i)

SignalFrames ==
    {Frame([i \in 1..n |-> U * SignalAt(shape, n, step, i)]) :
        shape \in SignalShapes, n \in MinBars..SigLen, step \in {1, 2}}

InitSignals ==
    /\ MoreIdle
    /\ ohlcv \in SignalFrames
    /\ tech = Idle
    /\ replay = Idle
    /\ ScreenIdle /\ WatchIdle

NextSignals == AnalyzeCall

SpecSignals == InitSignals /\ [][NextSignals]_vars

\* analyze went past its floor tests: indicators and signals were computed
StepsRun == Called /\ ~tech.locals.indicators.empty

Detected == SeqRange(tech.locals.signals)
BarsGiven == Len(ohlcv.Close)

\* the SMA of the bar before the last one, over the closes themselves
PrevBarSma(p) ==
    IF BarsGiven - 1 >= p
    THEN Some(WindowMean(ohlcv.Close, BarsGiven - p, BarsGiven - 1))
    ELSE None

CurrentSma(p) == tech.locals.indicators.sma[p]

\* the SMA of period p has at least two valid observations
TwoValid(p) == BarsGiven - p + 1 >= 2

GoldenOf(pair) == <<"Golden cross", pair[1], pair[2]>>
DeathOf(pair) == <<"Death cross", pair[1], pair[2]>>

\* C24: for each configured pair, Golden cross is emitted exactly when
\* the previous-bar short SMA was <= the long one and the current short
\* SMA is > the long one, Death cross exactly when previous short >= long
\* and current short < long, neither when an SMA of the pair has fewer
\* than two valid observations, and never both
C24_CrossRule ==
    StepsRun =>
        \A pair \in SeqRange(golden_cross_pairs) :
            /\ ~(GoldenOf(pair) \in Detected /\ DeathOf(pair) \in Detected)
            /\ IF TwoValid(pair[1]) /\ TwoValid(pair[2])
               THEN /\ GoldenOf(pair) \in Detected <=>
                         /\ PrevBarSma(pair[1]).v <= PrevBarSma(pair[2]).v
                         /\ CurrentSma(pair[1]).v > CurrentSma(pair[2]).v
                    /\ DeathOf(pair) \in Detected <=>
                         /\ PrevBarSma(pair[1]).v >= PrevBarSma(pair[2]).v
                         /\ CurrentSma(pair[1]).v < CurrentSma(pair[2]).v
               ELSE /\ GoldenOf(pair) \notin Detected
                    /\ DeathOf(pair) \notin Detected

\* the 20-bar SMA crossed above the 60-bar SMA at the last bar, while the
\* 5-bar SMA, above the 20-bar one before and after, gives no signal
C24_Witness ==
    /\ StepsRun
    /\ GoldenOf(<<20, 60>>) \in Detected
    /\ PrevBarSma(20).v <= PrevBarSma(60).v
    /\ CurrentSma(20).v > CurrentSma(60).v
    /\ PrevBarSma(5).v > PrevBarSma(20).v
    /\ GoldenOf(<<5, 20>>) \notin Detected

\* position of a signal in the detection order
SignalRank(sg) ==
    CASE sg[1] \in {"RSI overbought", "RSI oversold"} -> 1
      [] sg[1] \in {"MACD bullish cross", "MACD bearish cross"} -> 2
      [] sg[1] \in {"Golden cross", "Death cross"} ->
            2 + CHOOSE k \in 1..Len(golden_cross_pairs) :
                    golden_cross_pairs[k] = <<sg[2], sg[3]>>
      [] sg[1] = "Bollinger upper breakout" -> 3 + Len(golden_cross_pairs)
      [] sg[1] = "Bollinger lower breakout" -> 4 + Len(golden_cross_pairs)

SignalNames == {tech.locals.signals[i][1] :
                   i \in 1..Len(tech.locals.signals)}

\* C25: the signals are in the order RSI, MACD, MA crosses by pair,
\* Bollinger, with at most one signal of each rank; the RSI signal is
\* overbought for rsi >= 70 and oversold for rsi <= 30, and the MACD
\* signal is bullish for macd > signal, bearish for macd < signal and
\* absent for macd = signal
C25_DetectionOrder ==
    StepsRun =>
        LET sig == tech.locals.signals
            ind == tech.locals.indicators
        IN  /\ \A i \in 1..Len(sig) - 1 :
                  SignalRank(sig[i]) < SignalRank(sig[i + 1])
            /\ "RSI overbought" \in SignalNames <=>
                  (ind.rsi.ok /\ ind.rsi.v >= rsi_overbought * U)
            /\ "RSI oversold" \in SignalNames <=>
                  (ind.rsi.ok /\ ind.rsi.v <= rsi_oversold * U)
            /\ "MACD bullish cross" \in SignalNames <=>
                  (ind.macd.ok /\ ind.macd_signal.ok
                      /\ ind.macd.v > ind.macd_signal.v)
            /\ "MACD bearish cross" \in SignalNames <=>
                  (ind.macd.ok /\ ind.macd_signal.ok
                      /\ ind.macd.v < ind.macd_signal.v)

\* an RSI signal, a MACD signal, the cross of each pair and a Bollinger
\* breakout, all detected in one call
C25_Witness ==
    /\ StepsRun
    /\ Len(tech.locals.signals) = 5
    /\ tech.locals.signals[1][1] = "RSI overbought"
    /\ tech.locals.signals[2] = <<"MACD bullish cross">>
    /\ tech.locals.signals[3] = GoldenOf(<<5, 20>>)
    /\ tech.locals.signals[4] = GoldenOf(<<20, 60>>)
    /\ tech.locals.signals[5] = <<"Bollinger upper breakout">>

\* macd equals its signal line and no MACD signal is in the list
C25_EqualityWitness ==
    /\ StepsRun
    /\ tech.locals.indicators.macd.ok
    /\ tech.locals.indicators.macd = tech.locals.indicators.macd_signal
    /\ SignalNames \cap {"MACD bullish cross", "MACD bearish cross"} = {}

(***************************************************************************)
(* SpecBollinger: one call of TechnicalAnalyzer.analyze on series that put  *)
(* the last close at different places between, on and outside the bands    *)
(***************************************************************************)
MaxScale == 3
SwingLen == 40

\* twenty closes with mean 4 and sample standard deviation 2
Swing == <<7, 7, 7, 7, 1, 1, 1, 1, 5, 5, 3, 3, 4, 4, 4, 4, 4, 4, 4, 4>>

\* the swing repeated, started at its bar r + 1, in units of scale
SwingSeries(r, scale, n) ==
    [i \in 1..n |-> U * scale * Swing[((i + r - 1) % Len(Swing)) + 1]]

\* one early fall, then flat
DropSeries(scale, n) ==
    [i \in 1..n |-> IF i <= 5 THEN U * scale * 11 ELSE U * scale * 10]

BollingerFrames ==
    {Frame(SwingSeries(r, scale, n)) :
        r \in 0..Len(Swing) - 1, scale \in 1..MaxScale,
        n \in {MinBars, SwingLen}}
    \cup {Frame(DropSeries(scale, n)) :
            scale \in 1..MaxScale, n \in {MinBars, SwingLen}}
    \cup {Frame([i \in 1..n |-> U * SignalAt(shape, n, step, i)]) :
            shape \in SignalShapes, n \in {MinBars, SwingLen},
            step \in {1, 2}}

InitBollinger ==
    /\ MoreIdle
    /\ ohlcv \in BollingerFrames
    /\ tech = Idle
    /\ replay = Idle
    /\ ScreenIdle /\ WatchIdle

NextBollinger == AnalyzeCall

SpecBollinger == InitBollinger /\ [][NextBollinger]_vars

\* _compute_score got as far as its components
Scored == StepsRun /\ tech.locals.parts.reached

BandsApart ==
    /\ tech.locals.indicators.bb_upper.ok
    /\ tech.locals.indicators.bb_lower.ok
    /\ tech.locals.indicators.bb_upper.v > tech.locals.indicators.bb_lower.v

\* clamp(0, 25, (1 - position) * 20 + 2.5)
PositionScore(close, lower, upper) ==
    Max2(0, Min2(25 * U,
        (U - LongDiv(close - lower, upper - lower, 6)) * 20 + (5 * U) \div 2))

\* C29: with both bands defined and upper > lower the Bollinger component
\* is clamp(0, 25, (1 - position) * 20 + 2.5), position being
\* (close - lower) / (upper - lower); otherwise it is 12.5
C29_BollingerComponent ==
    Scored =>
        IF BandsApart
        THEN tech.locals.parts.bb_score =
                PositionScore(LastClose(ohlcv),
                              tech.locals.indicators.bb_lower.v,
                              tech.locals.indicators.bb_upper.v)
        ELSE tech.locals.parts.bb_score = (25 * U) \div 2

(***************************************************************************)
(* SpecSubscores: one call of FundamentalAnalyzer._compute_score on the    *)
(* metrics _extract_metrics hands it; each of the six scored metrics is a  *)
(* float or None                                                           *)
(***************************************************************************)
MaxMetric == 1000

\* hundredths: Hundredths(15) is 0.15
Hundredths(n) == (n * U) \div 100

\* values of one metric: around the half and the full maximum for the
\* valuation metrics, ratios and the same values as percentages for the
\* others
ValuationGrid(max) ==
    {None, Some(-5 * U), Some(0), Some(1), Some(U),
     Some((max * U) \div 2 - 1), Some((max * U) \div 2),
     Some((max * U) \div 2 + 1), Some((4 * max * U) \div 5),
     Some(max * U - 1), Some(max * U), Some(max * U + 1),
     Some(2 * max * U), Some(MaxMetric * U)}

Ratios == {-150, -100, -20, -1, 0, 1, 5, 7, 10, 15, 50, 99, 100, 150, 300}

ThresholdGrid ==
    {None} \cup {Some(Hundredths(n)) : n \in Ratios}
           \cup {Some(n * U) : n \in Ratios}
           \cup {Some(MaxMetric * U), Some(-MaxMetric * U)}

NoMetrics == [k \in SixMetrics |-> None]

\* a value that earns the whole share, and one that loses it
Good(k) == IF k \in {"per", "pbr"} THEN Some(U) ELSE Some(MaxMetric * U)
Bad(k) == IF k \in {"per", "pbr"} THEN Some(MaxMetric * U)
          ELSE Some(-MaxMetric * U)

MetricInputs ==
    {[k \in SixMetrics |-> IF c[k] = "none" THEN None
                           ELSE IF c[k] = "good" THEN Good(k) ELSE Bad(k)] :
        c \in [SixMetrics -> {"none", "good", "bad"}]}
    \cup {[NoMetrics EXCEPT !.per = v] : v \in ValuationGrid(per_max)}
    \cup {[NoMetrics EXCEPT !.pbr = v] : v \in ValuationGrid(pbr_max)}
    \cup {[NoMetrics EXCEPT !.per = v, !.pbr = w] :
            v \in {Some(24 * U)}, w \in ValuationGrid(pbr_max)}
    \cup {[NoMetrics EXCEPT ![k] = v] :
            k \in SixMetrics \ {"per", "pbr"}, v \in ThresholdGrid}

InitSubscores ==
    /\ metrics \in MetricInputs
    /\ subscores = Idle
    /\ fund = Idle /\ FearIdle /\ DiagIdle /\ TrendIdle /\ CallsIdle
    /\ ScanIdle
    /\ ohlcv = NoFrame /\ tech = Idle /\ replay = Idle
    /\ ScreenIdle /\ WatchIdle

ComputeScoreCall ==
    /\ subscores = Idle
    /\ subscores' = FundSubscores(metrics)
    /\ UNCHANGED <<techVars, screenVars, watchVars, fund, fearVars, diagVars,
                   trendVars, callVars, scanVars, metrics>>

NextSubscores == ComputeScoreCall

SpecSubscores == InitSubscores /\ [][NextSubscores]_vars

SubScored == subscores.status = "returned"

HalfShare == (825 * U) \div 100

MaxOf(k) == IF k = "per" THEN per_max ELSE pbr_max

\* what the claim gives a present, positive valuation metric v
ValuationShare(v, max) ==
    IF 2 * v <= max * U THEN HalfShare
    ELSE IF v <= max * U
    THEN Scale(U - LongDiv(v, max * U, 6), 825, 100)
    ELSE -HalfShare

\* C26: a present and positive PER or PBR adds 8.25 up to half its
\* maximum, 8.25 * (1 - value/max) above half and up to the maximum, and
\* -8.25 above the maximum; a larger value never adds more
C26_ValuationShares ==
    SubScored =>
        \A k \in {"per", "pbr"} :
            (metrics[k].ok /\ metrics[k].v > 0) =>
                /\ subscores.added[k] = ValuationShare(metrics[k].v, MaxOf(k))
                /\ \A w \in ValuationGrid(MaxOf(k)) :
                      (w.ok /\ w.v >= metrics[k].v) =>
                          ValuationPart(w, MaxOf(k)) <= subscores.added[k]

\* PER 24 of 30 adds a fifth of 8.25 and PBR 10 of 5 takes 8.25 away
C26_Witness ==
    /\ SubScored
    /\ metrics.per = Some(24 * U) /\ metrics.pbr = Some(10 * U)
    /\ subscores.added.per = (165 * U) \div 100
    /\ subscores.added.pbr = -HalfShare
    /\ subscores.val_score = (99 * U) \div 10

ThresholdMetrics == SixMetrics \ {"per", "pbr"}

\* configured minimum, slope in tenths and cap in hundredths of a metric
MinOf(k) ==
    CASE k = "roe" -> roe_min
      [] k = "operating_margin" -> operating_margin_min
      [] k = "revenue_growth" -> revenue_growth_min
      [] k = "earnings_growth" -> earnings_growth_min
SlopeOf(k) ==
    CASE k = "roe" -> 5
      [] k = "operating_margin" -> 3
      [] k = "revenue_growth" -> 4
      [] k = "earnings_growth" -> 3
CapOf(k) == IF k \in {"roe", "operating_margin"} THEN 825 ELSE 850

\* what the claim gives a metric whose percentage form is pct
ThresholdShare(pct, k) ==
    IF pct >= MinOf(k) * U
    THEN Min2((CapOf(k) * U) \div 100,
              Scale(pct - MinOf(k) * U, SlopeOf(k), 10))
    ELSE -Min2((CapOf(k) * U) \div 100,
               Scale(MinOf(k) * U - pct, SlopeOf(k), 10))

Normalised(x) == IF Abs(x) < U THEN x * 100 ELSE x

\* the metric of the state is the ratio n / 100, whose percentage is n
GivenAsRatio(k, n) == metrics[k] = Some(Hundredths(n))
SameAsPercentage(k, n) ==
    subscores.added[k] =
        ThresholdPart(Some(n * U), MinOf(k), SlopeOf(k), CapOf(k))

NormaliseThenCompare ==
    \A k \in ThresholdMetrics :
        metrics[k].ok =>
            subscores.added[k] = ThresholdShare(Normalised(metrics[k].v), k)

\* C27 as stated: x is taken as x * 100 when |x| < 1 and as x otherwise and
\* compared with the minimum, and a ratio r whose percentage 100 * r has
\* |100 * r| >= 1 adds what that percentage adds
C27_AsStated ==
    SubScored =>
        /\ NormaliseThenCompare
        /\ \A k \in ThresholdMetrics : \A n \in Ratios :
              (GivenAsRatio(k, n) /\ Abs(n) >= 1) => SameAsPercentage(k, n)

\* C27: x is taken as x * 100 when |x| < 1 and as x otherwise and compared
\* with the minimum, and a ratio r with |r| < 1 and |100 * r| >= 1 adds
\* what the percentage 100 * r adds
C27_RatioAsPercentage ==
    SubScored =>
        /\ NormaliseThenCompare
        /\ \A k \in ThresholdMetrics : \A n \in Ratios :
              (GivenAsRatio(k, n) /\ Abs(n) >= 1 /\ Abs(n) < 100)
                  => SameAsPercentage(k, n)

\* ROE given as 0.15 adds 0.5 * (15 - 10) = 2.5, as ROE 15 does
C27_Witness ==
    /\ SubScored
    /\ GivenAsRatio("roe", 15)
    /\ subscores.added.roe = (25 * U) \div 10
    /\ SameAsPercentage("roe", 15)

\* C28: whatever metrics are present, the valuation sub-score is within
\* [0, 33], the profitability sub-score within [0, 33], the growth
\* sub-score within [0, 34] and the total within [0, 100] with one decimal
C28_SubscoreRanges ==
    SubScored =>
        /\ subscores.val_score >= 0 /\ subscores.val_score <= 33 * U
        /\ subscores.prof_score >= 0 /\ subscores.prof_score <= 33 * U
        /\ subscores.growth_score >= 0 /\ subscores.growth_score <= 34 * U
        /\ subscores.score >= 0 /\ subscores.score <= 100 * U
        /\ subscores.score % (U \div 10) = 0

\* PER absent and PBR far above its maximum: valuation 8.25; the other
\* four metrics far above their minimums: 33 and 34, total 75.2
C28_Witness ==
    /\ SubScored
    /\ ~metrics.per.ok /\ metrics.pbr = Bad("pbr")
    /\ subscores.val_score = HalfShare
    /\ subscores.prof_score = 33 * U
    /\ subscores.growth_score = 34 * U
    /\ subscores.score = (752 * U) \div 10

====
